---- MODULE Spec2Model ----
(***************************************************************************)
(* Verification model of the digital-asset ingestion pipeline:             *)
(*   - grpc-ingest `run`: the management loop that deduplicates upstream   *)
(*     account and transaction updates and batches them into the broker;   *)
(*   - the stream consumer and the transaction handler;                    *)
(*   - ProgramTransformer::handle_transaction (ordered dispatch);          *)
(*   - the compressed-data ledger of the noop program (noop/db.rs).        *)
(* Each part has its own specification over its own variables; the other   *)
(* variables stay at their initial values.                                 *)
(***************************************************************************)
EXTENDS Integers, Sequences, FiniteSets, TLC

(***************************************************************************)
(* Bounds of the model.                                                    *)
(***************************************************************************)
MaxMsgs == 4
MaxHeldMsgs == 2
MaxTime == 10
MaxSlot == 2

(***************************************************************************)
(* Configuration values and program constants of grpc-ingest.              *)
(***************************************************************************)
solana_seen_event_cache_max_size == 2
pipeline_max_size == 2
pipeline_max_idle == 10
max_xadd_in_process == 2
SweepIntervalSecs == 10
PendingHoldSecs == 10
TickSecs == 10

(***************************************************************************)
(* Generic helpers.                                                        *)
(***************************************************************************)
Range(s) == {s[i] : i \in 1..Len(s)}

RemoveAt(s, i) == SubSeq(s, 1, i - 1) \o SubSeq(s, i + 1, Len(s))

Max2(a, b) == IF a >= b THEN a ELSE b

(***************************************************************************)
(* Upstream updates (GrpcStream { endpoint_index, update }).               *)
(* Byte strings are sequences of small naturals; text is a sequence of     *)
(* one-character strings.                                                  *)
(***************************************************************************)
Endpoints == {0, 1}

Slots == 1..MaxSlot

\* account.account.pubkey; <<>> is what unwrap_or_default yields when the
\* account field of the update is absent.
Pubkeys == {<<>>, <<171>>}

Signatures == {<<10>>, <<171>>}

\* "ok": transaction and meta present, meta.err absent; "err": meta.err set;
\* "no_meta": meta absent; "no_txn": the transaction field itself is absent.
TxStatus == {"ok", "err", "no_meta", "no_txn"}

AccountUpdates == [kind : {"Account"}, slot : Slots, pubkey : Pubkeys]

TransactionUpdates == [kind : {"Transaction"}, signature : Signatures, status : TxStatus]

OtherUpdates == [kind : {"Other"}]

Updates == AccountUpdates \cup TransactionUpdates \cup OtherUpdates

HexDigit(n) == CASE n = 0 -> "0" [] n = 1 -> "1" [] n = 2 -> "2" [] n = 3 -> "3"
                 [] n = 4 -> "4" [] n = 5 -> "5" [] n = 6 -> "6" [] n = 7 -> "7"
                 [] n = 8 -> "8" [] n = 9 -> "9" [] n = 10 -> "a" [] n = 11 -> "b"
                 [] n = 12 -> "c" [] n = 13 -> "d" [] n = 14 -> "e" [] n = 15 -> "f"

RECURSIVE HexEncode(_)
HexEncode(bytes) ==
    IF bytes = <<>> THEN <<>>
    ELSE <<HexDigit(Head(bytes) \div 16), HexDigit(Head(bytes) % 16)>> \o HexEncode(Tail(bytes))

RECURSIVE Decimal(_)
Decimal(n) == IF n < 10 THEN <<HexDigit(n)>> ELSE Decimal(n \div 10) \o <<HexDigit(n % 10)>>

SlotPubkey_SlotOnly(account) == Decimal(account.slot) \o <<":">>

SlotPubkey(account) == Decimal(account.slot) \o <<":">> \o HexEncode(account.pubkey)

SlotSignature(transaction) == HexEncode(transaction.signature)

EncodeAccount(account) == <<1, account.slot>> \o account.pubkey

EncodeTransaction(transaction) == <<2>> \o transaction.signature

(***************************************************************************)
(* LruCache<String, u64>: a sequence of entries, least recently used       *)
(* first, most recently used last.                                         *)
(***************************************************************************)
LruKeys(c) == {c[i].k : i \in 1..Len(c)}

LruIndex(c, key) == CHOOSE i \in 1..Len(c) : c[i].k = key

LruContains(c, key) == key \in LruKeys(c)

LruPeek(c, key) == c[LruIndex(c, key)].v

\* History kept in the entries: `at` numbers the insertions and `used` the
\* insertions and hits, in the order in which they happened.
RECURSIVE LruClock(_)
LruClock(c) == IF c = <<>> THEN 0 ELSE Max2(c[1].used, LruClock(Tail(c)))

\* get_mut(key) followed by `*cache += 1`, without the move of the entry.
LruHit_NoPromote(c, key) ==
    LET i == LruIndex(c, key)
    IN  [c EXCEPT ![i] = [@ EXCEPT !.v = @ + 1, !.used = LruClock(c) + 1]]

\* get_mut(key) followed by `*cache += 1`: the entry moves to the most
\* recently used end and its counter is incremented.
LruHit(c, key) ==
    LET i == LruIndex(c, key)
    IN  RemoveAt(c, i) \o <<[c[i] EXCEPT !.v = @ + 1, !.used = LruClock(c) + 1]>>

\* put(key, value): replaces and promotes an existing entry; otherwise
\* inserts, evicting the least recently used entry when the cache is full.
LruPut(c, key, value) ==
    LET new == [k |-> key, v |-> value, at |-> LruClock(c) + 1, used |-> LruClock(c) + 1]
    IN  IF LruContains(c, key)
        THEN RemoveAt(c, LruIndex(c, key))
             \o <<[c[LruIndex(c, key)] EXCEPT !.v = value, !.used = LruClock(c) + 1]>>
        ELSE IF Len(c) >= solana_seen_event_cache_max_size
             THEN Tail(c) \o <<new>>
             ELSE c \o <<new>>

(***************************************************************************)
(* HashMap helpers (pending_update_events).                                *)
(***************************************************************************)
MapInsert(m, key, value) == [x \in (DOMAIN m) \cup {key} |-> IF x = key THEN value ELSE m[x]]

MapRemove(m, key) == [x \in (DOMAIN m) \ {key} |-> m[x]]

EmptyMap == [x \in {} |-> 0]

(***************************************************************************)
(* State of grpc-ingest `run`.                                             *)
(***************************************************************************)
VARIABLES
    seen_update_events,     \* LruCache<String, u64>
    pending_update_events,  \* HashMap<String, (u8, SystemTime, SubscribeUpdateTransaction)>
    pipe,                   \* the redis pipeline being accumulated: a sequence of XADD commands
    pipe_accounts,
    pipe_transactions,
    tasks,                  \* JoinSet of spawned flush tasks
    broker,                 \* the streams held by the broker
    now,                    \* the clock, in seconds
    next_tick,              \* when `interval` fires next
    deadline,               \* when the `deadline` sleep completes
    received,               \* number of updates received so far that passed the filter
    arrivals,               \* history, per fingerprint: how many deliveries passed the filter
    deliveries,             \* history, per signature: the endpoint index of its first delivery
                            \* and the endpoints that delivered it
    evicted,                \* history: fingerprints the cache has evicted
    xadd_log,               \* history: how often each XADD command was put into a pipeline
    xadd_status,            \* the counters of redis_xadd_status_inc, per stream and status
    phase,                  \* where `run` is: in its loop, joining the tasks, or returned
    endpoints,              \* per endpoint task: retry_count and where the task is
    channel,                \* the mpsc channel from the endpoint tasks to the loop
    at_join                 \* the loop is in the join loop at its bottom

runVars == <<phase, endpoints, channel, at_join>>

ingestVars == <<seen_update_events, pending_update_events, pipe, pipe_accounts,
                pipe_transactions, tasks, broker, now, next_tick, deadline,
                received, arrivals, deliveries, evicted, xadd_log, xadd_status, runVars>>

(***************************************************************************)
(* State of the transformer: the four tables of the compressed-data ledger *)
(* and the handle_transaction futures in flight on a stream worker.        *)
(***************************************************************************)
VARIABLES
    merkle_tree,                \* table merkle_tree: tree id -> row
    compressed_data,            \* table compressed_data: id -> row
    compressed_data_changelog,  \* table compressed_data_changelog, rows in insertion order
    character_history,          \* table character_history, rows in insertion order
    workers,                    \* per future: where it is and its locals
    records                     \* history: the stream records delivered, with their outcome

transformerVars == <<merkle_tree, compressed_data, compressed_data_changelog,
                     character_history, workers, records>>

(***************************************************************************)
(* State of the account handlers: the asset table, the table of token      *)
(* accounts and the table of program accounts.                             *)
(***************************************************************************)
VARIABLES
    asset,                      \* table asset: mint -> row
    token_accounts,             \* table token_accounts: account key -> row
    dao_accounts                \* table accounts: account key -> row

(***************************************************************************)
(* State of the backfiller: the ledger's signature history of each tree,   *)
(* the rows of cl_audits_v2, the position of run, the two channels, the    *)
(* two manager tasks and the tasks spawned so far.                         *)
(***************************************************************************)
VARIABLES
    chain,                      \* tree -> its transactions, newest first
    cl_audits_v2,               \* tree -> positions in chain of the indexed rows
    backfill,                   \* run: [pc, trees, crawl_handles]
    gap_channel,                \* mpsc channel of TreeGapFill
    sig_channel,                \* mpsc channel of Signature
    managers,                   \* gap_worker_manager, transaction_worker_manager
    spawned                     \* tokio::spawn'ed worker tasks, in spawn order

opsVars == <<chain, cl_audits_v2, backfill, gap_channel, sig_channel, managers, spawned>>

\* The backfiller is a separate binary: it is not running beside the ingester
\* and the transformers.
OpsIdle ==
    /\ chain = <<>>
    /\ cl_audits_v2 = <<>>
    /\ backfill = [pc |-> "returned", trees |-> <<>>, crawl_handles |-> {}]
    /\ gap_channel = <<>>
    /\ sig_channel = <<>>
    /\ managers = <<>>
    /\ spawned = <<>>

assetVars == <<asset, token_accounts, dao_accounts, opsVars>>

NumWorkers == 2

Workers == 1..NumWorkers

\* A future that handles no record.
IdleWorker ==
    [pc |-> "idle", record |-> 0, instructions |-> <<>>, index |-> 0, not_impl |-> 0,
     ixlen |-> 0, trace |-> <<>>, writes |-> 0, logged |-> <<>>, l |-> <<>>]

\* Empty tables, nothing delivered.
TransformerIdle ==
    /\ merkle_tree = EmptyMap
    /\ compressed_data = EmptyMap
    /\ compressed_data_changelog = <<>>
    /\ character_history = <<>>
    /\ workers = [w \in Workers |-> IdleWorker]
    /\ records = <<>>
    /\ asset = EmptyMap
    /\ token_accounts = EmptyMap
    /\ dao_accounts = EmptyMap
    /\ OpsIdle

StreamNames == {"ACCOUNTS", "TRANSACTIONS", "TXN_CACHE"}

XaddAccount(account) == <<[stream |-> "ACCOUNTS", data |-> EncodeAccount(account)]>>

XaddTransaction_EndpointZero(endpoint_index, transaction) ==
    << [stream |-> "TRANSACTIONS", data |-> EncodeTransaction(transaction)],
       [stream |-> "TXN_CACHE", data |-> <<0>> \o EncodeTransaction(transaction)] >>

\* The two commands issued for a transaction: the payload on the transactions
\* stream, and the payload with the endpoint index prepended on TXN_CACHE.
XaddTransaction(endpoint_index, transaction) ==
    << [stream |-> "TRANSACTIONS", data |-> EncodeTransaction(transaction)],
       [stream |-> "TXN_CACHE", data |-> <<endpoint_index>> \o EncodeTransaction(transaction)] >>

IngestStart ==
    /\ seen_update_events = <<>>
    /\ pending_update_events = EmptyMap
    /\ pipe = <<>>
    /\ pipe_accounts = 0
    /\ pipe_transactions = 0
    /\ tasks = <<>>
    /\ broker = [s \in StreamNames |-> <<>>]
    /\ now = 0
    /\ next_tick = 0
    /\ deadline = pipeline_max_idle
    /\ received = 0
    /\ arrivals = EmptyMap
    /\ deliveries = EmptyMap
    /\ evicted = {}
    /\ xadd_log = EmptyMap
    /\ xadd_status = [s \in {"ACCOUNTS", "TRANSACTIONS"} |-> [ok |-> 0, err |-> 0]]
    /\ phase = "loop"
    /\ endpoints = [e \in Endpoints |-> [retry_count |-> 0, pc |-> "connect"]]
    /\ channel = <<>>
    /\ at_join = FALSE

IngestInit == IngestStart /\ TransformerIdle

TasksFull_Late(ts) == Len(ts) > max_xadd_in_process

\* The condition of the join loop at the bottom of the loop.
TasksFull(ts) == Len(ts) >= max_xadd_in_process

\* The loop is at `tokio::select!`: it has not left, and it is not in the
\* join loop at its bottom.
AtSelect == phase = "loop" /\ ~at_join

\* The branch of select! has ended: a `continue` leads back to select!, any
\* other end to the join loop, which is entered when its condition holds.
BranchEnds(continued) ==
    /\ at_join' = IF continued THEN FALSE ELSE TasksFull(tasks')
    /\ UNCHANGED <<phase, endpoints, channel>>

\* Keys that `put` of a new key evicts from the cache c.
Evicts(c, key) ==
    IF ~LruContains(c, key) /\ Len(c) >= solana_seen_event_cache_max_size
    THEN {c[1].k} ELSE {}

NoteArrival(a, key) ==
    MapInsert(a, key, (IF key \in DOMAIN a THEN a[key] ELSE 0) + 1)

NoteDelivery(d, key, endpoint_index) ==
    IF key \in DOMAIN d
    THEN [d EXCEPT ![key].from = @ \cup {endpoint_index}]
    ELSE MapInsert(d, key, [first |-> endpoint_index, from |-> {endpoint_index}])

\* The history of issued commands, after the commands cmds are issued.
RECURSIVE NoteXadds(_, _)
NoteXadds(log, cmds) ==
    IF cmds = <<>> THEN log
    ELSE NoteXadds(MapInsert(log, Head(cmds),
                             (IF Head(cmds) \in DOMAIN log THEN log[Head(cmds)] ELSE 0) + 1),
                   Tail(cmds))

Issued(cmd) == IF cmd \in DOMAIN xadd_log THEN xadd_log[cmd] ELSE 0

\* std::mem::replace of the pipeline and its counters, deadline reset and
\* tasks.spawn of the flush.
SpawnFlush(p, pa, pt) ==
    /\ pipe' = <<>>
    /\ pipe_accounts' = 0
    /\ pipe_transactions' = 0
    /\ deadline' = now + pipeline_max_idle
    /\ tasks' = Append(tasks, [cmds |-> p, accounts |-> pa, transactions |-> pt, done |-> FALSE])

\* The tail of the receive branch with `>` for `>=`.
FlushIfFull_Late(p, pa, pt) ==
    IF pa + pt > pipeline_max_size
    THEN SpawnFlush(p, pa, pt)
    ELSE /\ pipe' = p
         /\ pipe_accounts' = pa
         /\ pipe_transactions' = pt
         /\ UNCHANGED <<deadline, tasks>>

\* The tail of the receive branch: flush when the batch is full.
FlushIfFull(p, pa, pt) ==
    IF pa + pt >= pipeline_max_size
    THEN SpawnFlush(p, pa, pt)
    ELSE /\ pipe' = p
         /\ pipe_accounts' = pa
         /\ pipe_transactions' = pt
         /\ UNCHANGED <<deadline, tasks>>

\* The account branch without the put of the fingerprint.
RecvAccount_Uncached(endpoint_index, account) ==
    LET slot_pubkey == SlotPubkey(account) IN
    IF LruContains(seen_update_events, slot_pubkey)
    THEN /\ seen_update_events' = LruHit(seen_update_events, slot_pubkey)
         /\ arrivals' = NoteArrival(arrivals, slot_pubkey)
         /\ UNCHANGED <<pending_update_events, pipe, pipe_accounts, pipe_transactions,
                        tasks, deadline, deliveries, evicted, xadd_log>>
    ELSE /\ arrivals' = NoteArrival(arrivals, slot_pubkey)
         /\ xadd_log' = NoteXadds(xadd_log, XaddAccount(account))
         /\ FlushIfFull(pipe \o XaddAccount(account), pipe_accounts + 1, pipe_transactions)
         /\ UNCHANGED <<seen_update_events, evicted, pending_update_events, deliveries>>

RecvAccount(endpoint_index, account) ==
    LET slot_pubkey == SlotPubkey(account) IN
    IF LruContains(seen_update_events, slot_pubkey)
    THEN /\ seen_update_events' = LruHit(seen_update_events, slot_pubkey)
         /\ arrivals' = NoteArrival(arrivals, slot_pubkey)
         /\ UNCHANGED <<pending_update_events, pipe, pipe_accounts, pipe_transactions,
                        tasks, deadline, deliveries, evicted, xadd_log>>
    ELSE /\ seen_update_events' = LruPut(seen_update_events, slot_pubkey, 1)
         /\ evicted' = evicted \cup Evicts(seen_update_events, slot_pubkey)
         /\ arrivals' = NoteArrival(arrivals, slot_pubkey)
         /\ xadd_log' = NoteXadds(xadd_log, XaddAccount(account))
         /\ FlushIfFull(pipe \o XaddAccount(account), pipe_accounts + 1, pipe_transactions)
         /\ UNCHANGED <<pending_update_events, deliveries>>

\* The check of a transaction update without the test of meta.err.
Dropped_MetaOnly(transaction) == transaction.status \in {"no_meta", "no_txn"}

\* transaction.transaction is None, its meta is None or its meta.err is Some.
Dropped(transaction) == transaction.status # "ok"

RecvTransaction(endpoint_index, transaction) ==
    LET slot_signature == SlotSignature(transaction) IN
    IF Dropped(transaction)
    THEN UNCHANGED <<seen_update_events, pending_update_events, pipe, pipe_accounts,
                     pipe_transactions, tasks, deadline, arrivals, deliveries, evicted, xadd_log>>
    ELSE IF LruContains(seen_update_events, slot_signature)
    THEN /\ seen_update_events' = LruHit(seen_update_events, slot_signature)
         /\ arrivals' = NoteArrival(arrivals, slot_signature)
         /\ deliveries' = NoteDelivery(deliveries, slot_signature, endpoint_index)
         /\ UNCHANGED <<pending_update_events, pipe, pipe_accounts, pipe_transactions,
                        tasks, deadline, evicted, xadd_log>>
    ELSE IF slot_signature \in DOMAIN pending_update_events
    THEN /\ pending_update_events' =
                MapInsert(pending_update_events, slot_signature,
                          [endpoint_index |-> endpoint_index, timestamp |-> now,
                           transaction |-> transaction])
         /\ arrivals' = NoteArrival(arrivals, slot_signature)
         /\ deliveries' = NoteDelivery(deliveries, slot_signature, endpoint_index)
         /\ UNCHANGED <<seen_update_events, pipe, pipe_accounts, pipe_transactions,
                        tasks, deadline, evicted, xadd_log>>
    ELSE /\ pending_update_events' = MapRemove(pending_update_events, slot_signature)
         /\ seen_update_events' = LruPut(seen_update_events, slot_signature, 1)
         /\ evicted' = evicted \cup Evicts(seen_update_events, slot_signature)
         /\ arrivals' = NoteArrival(arrivals, slot_signature)
         /\ deliveries' = NoteDelivery(deliveries, slot_signature, endpoint_index)
         /\ xadd_log' = NoteXadds(xadd_log, XaddTransaction(endpoint_index, transaction))
         /\ FlushIfFull(pipe \o XaddTransaction(endpoint_index, transaction),
                        pipe_accounts, pipe_transactions + 1)

\* An update passes the filter unless it is a transaction without meta or
\* with an execution error, or is neither an account nor a transaction.
PassesFilter(update) ==
    \/ update.kind = "Account"
    \/ update.kind = "Transaction" /\ update.status = "ok"

\* match update { .. } and the flush that follows it.
HandleUpdate(endpoint_index, update) ==
    /\ CASE update.kind = "Account" -> RecvAccount(endpoint_index, update)
         [] update.kind = "Transaction" -> RecvTransaction(endpoint_index, update)
         [] OTHER -> UNCHANGED <<seen_update_events, pending_update_events, pipe,
                                 pipe_accounts, pipe_transactions, tasks, deadline,
                                 arrivals, deliveries, evicted, xadd_log>>
    /\ received' = IF PassesFilter(update) THEN received + 1 ELSE received

\* Some(GrpcStream { endpoint_index, update }) = rx.next(), while fewer than
\* limit updates have passed the filter.
RecvUpdateUpTo(limit) ==
    /\ AtSelect
    /\ received < limit
    /\ \E endpoint_index \in Endpoints, update \in Updates :
          HandleUpdate(endpoint_index, update)
    /\ BranchEnds(xadd_log' = xadd_log)
    /\ UNCHANGED <<broker, now, next_tick, xadd_status>>
    /\ UNCHANGED <<transformerVars, assetVars>>

RecvUpdate == RecvUpdateUpTo(MaxMsgs)

\* The orders in which a HashMap may hand out its keys.
IterationOrders(m) ==
    {o \in [1..Cardinality(DOMAIN m) -> DOMAIN m] : \A i, j \in DOMAIN o : o[i] = o[j] => i = j}

SweepStep_NoPromote(acc, slot_signature, entry, desired_time) ==
    IF entry.timestamp > desired_time
    THEN [acc EXCEPT !.map = MapInsert(acc.map, slot_signature, entry)]
    ELSE [acc EXCEPT !.cmds = acc.cmds \o XaddTransaction(entry.endpoint_index, entry.transaction),
                     !.count = acc.count + 1]

\* One step of the fold of the sweep: an entry younger than the hold time is
\* retained, any other is consumed: promoted to the cache and appended to
\* both transaction streams.
SweepStep(acc, slot_signature, entry, desired_time) ==
    IF entry.timestamp > desired_time
    THEN [acc EXCEPT !.map = MapInsert(acc.map, slot_signature, entry)]
    ELSE [map |-> acc.map,
          seen |-> LruPut(acc.seen, slot_signature, 1),
          evicted |-> acc.evicted \cup Evicts(acc.seen, slot_signature),
          cmds |-> acc.cmds \o XaddTransaction(entry.endpoint_index, entry.transaction),
          count |-> acc.count + 1]

RECURSIVE SweepFold(_, _, _, _)
SweepFold(acc, order, m, desired_time) ==
    IF order = <<>> THEN acc
    ELSE SweepFold(SweepStep(acc, Head(order), m[Head(order)], desired_time),
                   Tail(order), m, desired_time)

\* _ = interval.tick()
Sweep ==
    /\ AtSelect
    /\ now >= next_tick
    /\ next_tick' = next_tick + SweepIntervalSecs
    /\ \E order \in IterationOrders(pending_update_events) :
          LET desired_time == now - PendingHoldSecs
              r == SweepFold([map |-> EmptyMap, seen |-> seen_update_events,
                              evicted |-> evicted, cmds |-> <<>>, count |-> 0],
                             order, pending_update_events, desired_time)
          IN  /\ pending_update_events' = r.map
              /\ seen_update_events' = r.seen
              /\ evicted' = r.evicted
              /\ pipe' = pipe \o r.cmds
              /\ xadd_log' = NoteXadds(xadd_log, r.cmds)
              /\ pipe_transactions' = pipe_transactions + r.count
    /\ UNCHANGED <<pipe_accounts, tasks, broker, now, deadline, received, arrivals, deliveries,
                   xadd_status>>
    /\ UNCHANGED <<transformerVars, assetVars>>
    /\ BranchEnds(FALSE)

\* _ = &mut deadline
Deadline ==
    /\ AtSelect
    /\ now >= deadline
    /\ IF pipe_accounts + pipe_transactions > 0
       THEN SpawnFlush(pipe, pipe_accounts, pipe_transactions)
       ELSE UNCHANGED <<pipe, pipe_accounts, pipe_transactions, deadline, tasks>>
    /\ UNCHANGED <<seen_update_events, pending_update_events, broker, now, next_tick,
                   received, arrivals, deliveries, evicted, xadd_log, xadd_status>>
    /\ UNCHANGED <<transformerVars, assetVars>>
    /\ BranchEnds(FALSE)

\* What the broker holds after the commands of one atomic pipeline.
RECURSIVE ApplyCmds(_, _)
ApplyCmds(b, cmds) ==
    IF cmds = <<>> THEN b
    ELSE ApplyCmds([b EXCEPT ![Head(cmds).stream] = Append(@, Head(cmds).data)], Tail(cmds))

\* redis_xadd_status_inc(stream, status, delta)
redis_xadd_status_inc(counters, stream, status, delta) ==
    IF status
    THEN [counters EXCEPT ![stream].ok = @ + delta]
    ELSE [counters EXCEPT ![stream].err = @ + delta]

\* The flush task with a failed batch left in the set to be submitted again.
FlushRun_Resubmit ==
    /\ \E i \in 1..Len(tasks) :
          /\ ~tasks[i].done
          /\ \E status \in BOOLEAN :
                /\ tasks' = [tasks EXCEPT ![i].done = status]
                /\ broker' = IF status THEN ApplyCmds(broker, tasks[i].cmds) ELSE broker
                /\ xadd_status' =
                      redis_xadd_status_inc(
                          redis_xadd_status_inc(xadd_status, "ACCOUNTS", status,
                                                tasks[i].accounts),
                          "TRANSACTIONS", status, tasks[i].transactions)
    /\ UNCHANGED <<seen_update_events, pending_update_events, pipe, pipe_accounts,
                   pipe_transactions, now, next_tick, deadline, received, arrivals,
                   deliveries, evicted, xadd_log>>
    /\ UNCHANGED <<transformerVars, assetVars, runVars>>

\* A spawned flush task runs pipe.atomic().query_async: the whole batch is
\* appended, or the query fails and nothing is; its status goes to the
\* counters of both streams and the task returns Ok either way.
FlushRun ==
    /\ \E i \in 1..Len(tasks) :
          /\ ~tasks[i].done
          /\ tasks' = [tasks EXCEPT ![i].done = TRUE]
          /\ \E status \in BOOLEAN :
                /\ broker' = IF status THEN ApplyCmds(broker, tasks[i].cmds) ELSE broker
                /\ xadd_status' =
                      redis_xadd_status_inc(
                          redis_xadd_status_inc(xadd_status, "ACCOUNTS", status,
                                                tasks[i].accounts),
                          "TRANSACTIONS", status, tasks[i].transactions)
    /\ UNCHANGED <<seen_update_events, pending_update_events, pipe, pipe_accounts,
                   pipe_transactions, now, next_tick, deadline, received, arrivals,
                   deliveries, evicted, xadd_log>>
    /\ UNCHANGED <<transformerVars, assetVars, runVars>>

\* while tasks.len() >= max_xadd_in_process { tasks.join_next().await }
JoinNext ==
    /\ phase = "loop"
    /\ at_join
    /\ \E i \in 1..Len(tasks) :
          /\ tasks[i].done
          /\ tasks' = RemoveAt(tasks, i)
    /\ UNCHANGED <<seen_update_events, pending_update_events, pipe, pipe_accounts,
                   pipe_transactions, broker, now, next_tick, deadline, received,
                   arrivals, deliveries, evicted, xadd_log, xadd_status>>
    /\ UNCHANGED <<transformerVars, assetVars>>
    /\ BranchEnds(FALSE)

\* Time passes.
Tick ==
    /\ now + TickSecs <= MaxTime
    /\ now' = now + TickSecs
    /\ UNCHANGED <<seen_update_events, pending_update_events, pipe, pipe_accounts,
                   pipe_transactions, tasks, broker, next_tick, deadline, received,
                   arrivals, deliveries, evicted, xadd_log, xadd_status>>
    /\ UNCHANGED <<transformerVars, assetVars, runVars>>

IngestNext == RecvUpdate \/ Sweep \/ Deadline \/ FlushRun \/ JoinNext \/ Tick

vars == <<ingestVars, transformerVars, assetVars>>

Spec == IngestInit /\ [][IngestNext]_vars

(***************************************************************************)
(* The sweep applied to pending maps drawn from a bounded set: up to one   *)
(* held transaction per signature, first seen now or 20 s ago.  The        *)
(* actions are those of Spec, with fewer updates received.                 *)
(***************************************************************************)
HeldTimestamps == {0 - 2 * PendingHoldSecs, 0}

HeldEntries(sig) ==
    [endpoint_index : Endpoints, timestamp : HeldTimestamps,
     transaction : {[kind |-> "Transaction", signature |-> sig, status |-> "ok"]}]

PendingMaps ==
    UNION {[{HexEncode(sig) : sig \in held} -> UNION {HeldEntries(sig) : sig \in held}]
           : held \in SUBSET Signatures}

WellKeyed(m) == \A key \in DOMAIN m : HexEncode(m[key].transaction.signature) = key

SweepInit ==
    /\ seen_update_events = <<>>
    /\ pending_update_events \in {m \in PendingMaps : WellKeyed(m)}
    /\ pipe = <<>>
    /\ pipe_accounts = 0
    /\ pipe_transactions = 0
    /\ tasks = <<>>
    /\ broker = [s \in StreamNames |-> <<>>]
    /\ now = 0
    /\ next_tick = 0
    /\ deadline = pipeline_max_idle
    /\ received = 0
    /\ arrivals = EmptyMap
    /\ deliveries = EmptyMap
    /\ evicted = {}
    /\ xadd_log = EmptyMap
    /\ xadd_status = [s \in {"ACCOUNTS", "TRANSACTIONS"} |-> [ok |-> 0, err |-> 0]]
    /\ phase = "loop"
    /\ endpoints = [e \in Endpoints |-> [retry_count |-> 0, pc |-> "connect"]]
    /\ channel = <<>>
    /\ at_join = FALSE
    /\ TransformerIdle

RecvUpdateHeld == RecvUpdateUpTo(MaxHeldMsgs)

SweepNext == RecvUpdateHeld \/ Sweep \/ Deadline \/ FlushRun \/ JoinNext \/ Tick

SweepSpec == SweepInit /\ [][SweepNext]_vars

(***************************************************************************)
(* Claims about the ingest fan-in.                                         *)
(***************************************************************************)
TxOf(sig) == [kind |-> "Transaction", signature |-> sig, status |-> "ok"]

TxCmd(sig) == XaddTransaction(0, TxOf(sig))[1]

CacheCmd(endpoint_index, sig) == [stream |-> "TXN_CACHE",
                                  data |-> <<endpoint_index>> \o EncodeTransaction(TxOf(sig))]

AccountCmd(account) == [stream |-> "ACCOUNTS", data |-> EncodeAccount(account)]

\* C2: an account update received k >= 1 times whose fingerprint slot:pubkey
\* has not been evicted from the dedup cache has been appended to ACCOUNTS
\* exactly once; the k - 1 later arrivals only incremented its hit counter,
\* which therefore stands at k.
C2_AccountDedup ==
    \A account \in AccountUpdates :
        LET key == SlotPubkey(account) IN
        (key \in DOMAIN arrivals /\ key \notin evicted)
            => /\ Issued(AccountCmd(account)) = 1
               /\ LruContains(seen_update_events, key)
               /\ LruPeek(seen_update_events, key) = arrivals[key]

\* An account update received twice, never evicted, while the cache has
\* evicted another fingerprint.
C2_Witness ==
    \E account \in AccountUpdates :
        /\ SlotPubkey(account) \in DOMAIN arrivals
        /\ arrivals[SlotPubkey(account)] = 2
        /\ SlotPubkey(account) \notin evicted
        /\ evicted # {}

AppendedOnceFromFirst(sig) ==
    /\ Issued(TxCmd(sig)) = 1
    /\ \A e \in Endpoints :
          Issued(CacheCmd(e, sig)) = IF e = deliveries[HexEncode(sig)].first THEN 1 ELSE 0

\* C3 as stated: once both endpoints have delivered a successful
\* transaction, exactly one record was appended to TRANSACTIONS and one to
\* TXN_CACHE, prefixed with the endpoint index of the first delivery.
C3_Original ==
    \A sig \in Signatures :
        (HexEncode(sig) \in DOMAIN deliveries /\ deliveries[HexEncode(sig)].from = Endpoints)
            => AppendedOnceFromFirst(sig)

\* C3 as amended: the same, provided the signature has not been evicted
\* from the dedup cache since its first delivery.
C3_TransactionDedup ==
    \A sig \in Signatures :
        (/\ HexEncode(sig) \in DOMAIN deliveries
         /\ deliveries[HexEncode(sig)].from = Endpoints
         /\ HexEncode(sig) \notin evicted)
            => AppendedOnceFromFirst(sig)

\* Both endpoints delivered the transaction, endpoint 1 first, and the
\* signature was never evicted.
C3_Witness ==
    \E sig \in Signatures :
        /\ HexEncode(sig) \in DOMAIN deliveries
        /\ deliveries[HexEncode(sig)].from = Endpoints
        /\ deliveries[HexEncode(sig)].first = 1
        /\ HexEncode(sig) \notin evicted

\* The step is the arrival of an update with fingerprint key.
Arrives(key) ==
    /\ key \in DOMAIN arrivals'
    /\ arrivals'[key] = (IF key \in DOMAIN arrivals THEN arrivals[key] ELSE 0) + 1

\* C4: the arrival of a successful transaction whose signature is in
\* neither the dedup cache nor the pending map puts it into the pending map
\* and issues no append.
C4_FirstArrivalHeld ==
    [][\A sig \in Signatures :
          LET key == HexEncode(sig) IN
          (/\ Arrives(key)
           /\ ~LruContains(seen_update_events, key)
           /\ key \notin DOMAIN pending_update_events)
              => /\ key \in DOMAIN pending_update_events'
                 /\ xadd_log' = xadd_log]_vars

IsSweep == next_tick' # next_tick

IssuedAfter(cmd) == IF cmd \in DOMAIN xadd_log' THEN xadd_log'[cmd] ELSE 0

\* C5: a sweep removes every pending entry older than 10 s, appends it once
\* to TRANSACTIONS and once to TXN_CACHE with its stored endpoint index and
\* puts its signature into the dedup cache; it retains every entry younger
\* than 10 s unchanged and appends nothing for it; and an arrival of a
\* signature that is in the dedup cache appends nothing.
C5_SweepDrains ==
    [][/\ IsSweep =>
            \A key \in DOMAIN pending_update_events :
                LET entry == pending_update_events[key]
                    sig == entry.transaction.signature
                IN  /\ now - entry.timestamp > PendingHoldSecs
                        => /\ key \notin DOMAIN pending_update_events'
                           /\ IssuedAfter(TxCmd(sig)) = Issued(TxCmd(sig)) + 1
                           /\ \A e \in Endpoints :
                                 IssuedAfter(CacheCmd(e, sig)) = Issued(CacheCmd(e, sig))
                                     + (IF e = entry.endpoint_index THEN 1 ELSE 0)
                           /\ \/ LruContains(seen_update_events', key)
                              \/ key \in evicted'
                    /\ now - entry.timestamp < PendingHoldSecs
                        => /\ key \in DOMAIN pending_update_events'
                           /\ pending_update_events'[key] = entry
                           /\ IssuedAfter(TxCmd(sig)) = Issued(TxCmd(sig))
                           /\ \A e \in Endpoints :
                                 IssuedAfter(CacheCmd(e, sig)) = Issued(CacheCmd(e, sig))
       /\ \A sig \in Signatures :
             (Arrives(HexEncode(sig)) /\ LruContains(seen_update_events, HexEncode(sig)))
                 => xadd_log' = xadd_log]_vars

\* The first sweep has drained an entry held for 20 s with endpoint index 1
\* and retained a younger one, and the drained signature has arrived once
\* since and was suppressed.
C5_Witness ==
    \E sig \in Signatures :
        /\ now = 0
        /\ next_tick = SweepIntervalSecs
        /\ Issued(CacheCmd(1, sig)) = 1
        /\ Issued(TxCmd(sig)) = 1
        /\ HexEncode(sig) \notin DOMAIN pending_update_events
        /\ HexEncode(sig) \in DOMAIN arrivals
        /\ arrivals[HexEncode(sig)] = 1
        /\ LruContains(seen_update_events, HexEncode(sig))
        /\ LruPeek(seen_update_events, HexEncode(sig)) = 2
        /\ pending_update_events # EmptyMap

(***************************************************************************)
(* The compressed-data ledger (program_transformers noop handler) and the  *)
(* dispatch of a transaction's instructions.                               *)
(*                                                                         *)
(* Values.  SchemaValue and serde_json's JsonValue are kept apart: a row   *)
(* stores JSON, an event carries a SchemaValue, and the handler converts   *)
(* in both directions.  The text of a string is a sequence of chunks, so   *)
(* that a prefix can be stripped from it.                                  *)
(***************************************************************************)
SNull == [t |-> "Null"]

SString(text) == [t |-> "String", v |-> text]

SBool(b) == [t |-> "Bool", v |-> b]

SNumber(n) == [t |-> "Number", v |-> n]

SArray(items) == [t |-> "Array", items |-> items]

SObject(fields) == [t |-> "Object", fields |-> fields]

SEnum(kind, params) == [t |-> "Enum", kind |-> kind, params |-> params]

JNull == [j |-> "Null"]

JString(text) == [j |-> "String", v |-> text]

JBool(b) == [j |-> "Bool", v |-> b]

JNumber(n) == [j |-> "Number", v |-> n]

JArray(items) == [j |-> "Array", items |-> items]

JObject(fields) == [j |-> "Object", fields |-> fields]

\* impl From<SchemaValue> for JsonValue: an enum becomes an object holding its
\* kind and its params.
RECURSIVE ToJson(_)
ToJson(value) ==
    CASE value.t = "Null" -> JNull
      [] value.t = "String" -> JString(value.v)
      [] value.t = "Bool" -> JBool(value.v)
      [] value.t = "Number" -> JNumber(value.v)
      [] value.t = "Array" -> JArray([i \in DOMAIN value.items |-> ToJson(value.items[i])])
      [] value.t = "Object" -> JObject([k \in DOMAIN value.fields |-> ToJson(value.fields[k])])
      [] value.t = "Enum" -> JObject(("__kind" :> JString(<<value.kind>>))
                                     @@ ("params" :> ToJson(value.params)))

IsEnumJson(json) ==
    /\ json.j = "Object"
    /\ DOMAIN json.fields = {"__kind", "params"}
    /\ json.fields["__kind"].j = "String"
    /\ Len(json.fields["__kind"].v) = 1

\* impl From<JsonValue> for SchemaValue
RECURSIVE FromJson(_)
FromJson(json) ==
    CASE json.j = "Null" -> SNull
      [] json.j = "String" -> SString(json.v)
      [] json.j = "Bool" -> SBool(json.v)
      [] json.j = "Number" -> SNumber(json.v)
      [] json.j = "Array" -> SArray([i \in DOMAIN json.items |-> FromJson(json.items[i])])
      [] json.j = "Object" /\ IsEnumJson(json) ->
            SEnum(json.fields["__kind"].v[1], FromJson(json.fields["params"]))
      [] json.j = "Object" /\ ~IsEnumJson(json) ->
            SObject([k \in DOMAIN json.fields |-> FromJson(json.fields[k])])

\* try_to_vec / deserialize (borsh)
Borsh(value) == <<"borsh", value>>

Unborsh(bytes) == bytes[2]

\* keccak::hashv(&[tree_id, leaf_idx.to_le_bytes()])
CompressedDataId(tree_id, leaf_idx) == <<"keccak", tree_id, leaf_idx>>

\* Option::None of a nullable column or of a lookup
None == [none |-> TRUE]

IsNone(x) == x = None

Some(x) == [some |-> x]

\* Pubkey::from_str("ChRCtrG7X5kb9YncA4wuyD68DXXL8Szt3zBCCGiioBTg")
CharacterManagerId == "ChRCtrG7X5kb9YncA4wuyD68DXXL8Szt3zBCCGiioBTg"

OtherProgramId == "OtherProgram"

(***************************************************************************)
(* Inputs: the events a noop instruction can carry.                        *)
(***************************************************************************)
MaxSeq == 2

MaxEventSlot == 2

MaxLeafIdx == 0

TreeIds == {"T"}

LeafIdxs == 0..MaxLeafIdx

Schemas == {"CharacterSchema"}

RewardMin == 10

RewardMax == 20

RewardDelta == 50

UsedByNone == SEnum("None", SNull)

UsedByStaking == SEnum("Staking", SNull)

UsedByMission ==
    SEnum("Mission",
          SObject(("participation_id" :> SString(<<"p1">>))
                  @@ ("mission_id" :> SString(<<"pubkey:", "M">>))
                  @@ ("rewards" :> SArray(<< SObject(("delta" :> SNumber(RewardDelta))
                                                     @@ ("reward_idx" :> SNumber(0))
                                                     @@ ("collected" :> SBool(TRUE))) >>))))

Character == SObject(("used_by" :> UsedByNone) @@ ("color" :> SString(<<"red">>)))

FullData == {Character, SString(<<"x">>)}

PatchChunks ==
    {[key |-> "used_by", data |-> u] : u \in {UsedByNone, UsedByStaking, UsedByMission}}
    \cup {[key |-> "color", data |-> SString(<<"blue">>)],
          [key |-> "size", data |-> SString(<<"L">>)]}

StreamTypes ==
    {[kind |-> "Full", data |-> d] : d \in FullData}
    \cup {[kind |-> "PatchChunk", key |-> p.key, data |-> p.data] : p \in PatchChunks}
    \cup {[kind |-> "Empty"]}

LeafEvents ==
    {[kind |-> "Leaf", slot |-> slot, tree_id |-> tree_id, leaf_idx |-> leaf_idx,
      seq |-> seq, stream_type |-> stream_type] :
        slot \in 1..MaxEventSlot, tree_id \in TreeIds, leaf_idx \in LeafIdxs,
        seq \in 1..MaxSeq, stream_type \in StreamTypes}

TreeEvents ==
    {[kind |-> "TreeSchemaValue", tree_id |-> tree_id, schema |-> schema,
      program_id |-> program_id] :
        tree_id \in TreeIds, schema \in Schemas,
        program_id \in {CharacterManagerId, OtherProgramId}}

\* application_data bytes that CompressedDataEvent::deserialize rejects
UndecodableEvent == [kind |-> "Undecodable"]

Events == LeafEvents \cup TreeEvents \cup {UndecodableEvent}

\* Schema::validate: the one schema of the model accepts objects.
Validate(schema, data) == data.t = "Object"

\* The accounts table, as far as the handler reads it: the mission account
\* that UsedByMission refers to.
AccountsTable ==
    ("M" :> [parsed_data |->
                JObject("rewards" :> JArray(<< JObject(("min" :> JNumber(RewardMin))
                                                        @@ ("max" :> JNumber(RewardMax))
                                                        @@ ("reward_type" :> JString(<<"xp">>))) >>))])

(***************************************************************************)
(* Pure parts of log_character_history.                                    *)
(***************************************************************************)
\* The match without its arm for a staking character that stays staked.
HistoryEvent_NoClaim(pre_kind, new_kind) ==
    CASE pre_kind = "Ejected" /\ new_kind = "None" -> "Wrapped"
      [] pre_kind = "None" /\ new_kind = "Staking" -> "Staked"
      [] pre_kind = "None" /\ new_kind = "Mission" -> "MissionParticipation"
      [] pre_kind = "Staking" /\ new_kind = "None" -> "UnStaked"
      [] pre_kind = "Mission" /\ new_kind = "None" -> "RecallFromMission"
      [] pre_kind = "Mission" /\ new_kind = "Mission" -> "ClaimedMissionReward"
      [] new_kind = "Ejected" -> "UnWrapped"
      [] OTHER -> ""

\* The match on (pre_used_by_kind, new_used_by_kind); "" where no arm matches
\* but the last.
HistoryEvent(pre_kind, new_kind) ==
    CASE pre_kind = "Ejected" /\ new_kind = "None" -> "Wrapped"
      [] pre_kind = "None" /\ new_kind = "Staking" -> "Staked"
      [] pre_kind = "None" /\ new_kind = "Mission" -> "MissionParticipation"
      [] pre_kind = "Staking" /\ new_kind = "None" -> "UnStaked"
      [] pre_kind = "Staking" /\ new_kind = "Staking" -> "ClaimedStakingReward"
      [] pre_kind = "Mission" /\ new_kind = "None" -> "RecallFromMission"
      [] pre_kind = "Mission" /\ new_kind = "Mission" -> "ClaimedMissionReward"
      [] new_kind = "Ejected" -> "UnWrapped"
      [] OTHER -> ""

is_any_reward_collected(params) ==
    /\ params.t = "Object"
    /\ "rewards" \in DOMAIN params.fields
    /\ params.fields["rewards"].t = "Array"
    /\ \E i \in DOMAIN params.fields["rewards"].items :
          LET reward == params.fields["rewards"].items[i]
          IN  /\ reward.t = "Object"
              /\ "collected" \in DOMAIN reward.fields
              /\ reward.fields["collected"].t = "Bool"
              /\ reward.fields["collected"].v

\* Width of the unsigned arithmetic of the reward computation.
RewardWord == 256

get_result_from_delta(min, max, delta) ==
    LET range == (max - min) % RewardWord
    IN  (min + (((delta * range) % RewardWord) \div 100)) % RewardWord

IsU64(json) == json.j = "Number" /\ json.v >= 0

\* calculate_reward: None where a `?` or a pattern fails.
calculate_reward(event_reward, parsed_data_rewards) ==
    IF /\ event_reward.j = "Object"
       /\ {"delta", "reward_idx", "collected"} \subseteq DOMAIN event_reward.fields
       /\ IsU64(event_reward.fields["delta"])
       /\ IsU64(event_reward.fields["reward_idx"])
       /\ event_reward.fields["collected"].j = "Bool"
       /\ event_reward.fields["collected"].v
    THEN LET reward_idx == event_reward.fields["reward_idx"].v + 1
         IN  IF /\ reward_idx \in DOMAIN parsed_data_rewards
                /\ parsed_data_rewards[reward_idx].j = "Object"
                /\ {"min", "max", "reward_type"} \subseteq DOMAIN parsed_data_rewards[reward_idx].fields
                /\ IsU64(parsed_data_rewards[reward_idx].fields["min"])
                /\ IsU64(parsed_data_rewards[reward_idx].fields["max"])
             THEN LET min_max == parsed_data_rewards[reward_idx].fields
                  IN  JObject(("reward" :> JNumber(get_result_from_delta(
                                                      min_max["min"].v, min_max["max"].v,
                                                      event_reward.fields["delta"].v)))
                              @@ ("reward_type" :> min_max["reward_type"]))
             ELSE None
    ELSE None

\* The rewards of update_new_used_by: one per event reward that calculate_reward accepts.
RECURSIVE AllRewards(_, _)
AllRewards(event_data_rewards, parsed_data_rewards) ==
    IF event_data_rewards = <<>> THEN <<>>
    ELSE LET new_reward == calculate_reward(Head(event_data_rewards), parsed_data_rewards)
         IN  (IF IsNone(new_reward) THEN <<>> ELSE <<new_reward>>)
             \o AllRewards(Tail(event_data_rewards), parsed_data_rewards)

create_params(pre_used_by_kind, event_participant_ids, rewards, last_event_id) ==
    JObject(("pre_used_by" :> JString(<<pre_used_by_kind>>))
            @@ ("event_participant_ids" :>
                  JArray([i \in DOMAIN event_participant_ids |-> JNumber(event_participant_ids[i])]))
            @@ ("last_event_id" :> JNumber(last_event_id))
            @@ ("rewards" :> JArray(rewards)))

\* The rows selected by event_data->'params'->>'participation_id' = $1, in id order.
HasParticipation(row, text) ==
    /\ row.event_data.j = "Object"
    /\ "params" \in DOMAIN row.event_data.fields
    /\ row.event_data.fields["params"].j = "Object"
    /\ "participation_id" \in DOMAIN row.event_data.fields["params"].fields
    /\ row.event_data.fields["params"].fields["participation_id"].j = "String"
    /\ row.event_data.fields["params"].fields["participation_id"].v = text

FindParticipation(history, text) ==
    LET Test(row) == HasParticipation(row, text) IN SelectSeq(history, Test)

\* id.strip_prefix("pubkey:")
StripPrefix(text) == IF Len(text) >= 1 /\ text[1] = "pubkey:" THEN Some(Tail(text)) ELSE None

\* bs58::decode(stripped_id): the text of one chunk is the key of the account
Bs58Decode(text) == IF Len(text) = 1 THEN Some(text[1]) ELSE None

(***************************************************************************)
(* Transactions and the queue of break_transaction.                        *)
(***************************************************************************)
\* The programs that have a parser (key_set), and one that has none.
KeySet == {"Bubblegum", "AccountCompression", "Noop", "HplCharacterManager"}

Instruction(program, accounts, data, inner) ==
    [program |-> program, accounts |-> accounts, data |-> data, inner |-> inner]

\* order_instructions: a pair per outer instruction of a program in the key
\* set, with its inner group; the inner instructions of other outer
\* instructions that belong to a program of the key set are emitted as pairs
\* of their own, without an inner group.
RECURSIVE Hoisted(_)
Hoisted(inner) ==
    IF inner = <<>> THEN <<>>
    ELSE (IF Head(inner).program \in KeySet
          THEN <<[program |-> Head(inner).program, instruction |-> Head(inner), inner_ix |-> None]>>
          ELSE <<>>) \o Hoisted(Tail(inner))

RECURSIVE order_instructions(_)
order_instructions(message_instructions) ==
    IF message_instructions = <<>> THEN <<>>
    ELSE LET outer == Head(message_instructions)
         IN  (IF outer.program \in KeySet
              THEN <<[program |-> outer.program, instruction |-> outer, inner_ix |-> outer.inner]>>
              ELSE Hoisted(outer.inner))
             \o order_instructions(Tail(message_instructions))

break_transaction(tx_info) == order_instructions(tx_info.message_instructions)

\* ix_accounts.iter().max().copied().unwrap_or(0)
RECURSIVE MaxIndex(_)
MaxIndex(ix_accounts) ==
    IF ix_accounts = <<>> THEN 0 ELSE Max2(Head(ix_accounts), MaxIndex(Tail(ix_accounts)))

\* The fold that builds the keys of the instruction bundle: the key of every
\* index that account_keys.get finds, the others left out.  A key is named
\* by its index in the list of account keys.
InstructionKeys(account_keys, ix_accounts) ==
    SelectSeq(ix_accounts, LAMBDA a : a < account_keys)

NextPair_Last(instructions) == instructions[Len(instructions)]

\* The pair the for loop takes next, and what is left of the queue.
NextPair(instructions) == Head(instructions)

RestPairs(instructions) == Tail(instructions)

(***************************************************************************)
(* A stream record and its handling (transaction_notifications).  A record *)
(* carries a serialized transaction; `decodable` says whether              *)
(* root_as_transaction_info accepts the bytes.                             *)
(***************************************************************************)
TransactionInfo(account_keys, message_instructions) ==
    [account_keys |-> account_keys, message_instructions |-> message_instructions]

RecordData(tx) == [decodable |-> TRUE, tx |-> tx]

UndecodableData == [decodable |-> FALSE]

Lookup(table, key) == IF key \in DOMAIN table THEN Some(table[key]) ELSE None

\* What a delivery has left in the store, row identities aside.
Snapshot ==
    [compressed_data |-> compressed_data,
     changelog |-> Range(compressed_data_changelog),
     character_history |->
        {[event |-> h.event, event_data |-> h.event_data, character_id |-> h.character_id,
          slot_updated |-> h.slot_updated] : h \in Range(character_history)}]

NewRecord(data) ==
    [data |-> data, tries |-> 0,
     status |-> IF data.decodable THEN "in_flight" ELSE "pending",
     result |-> IF data.decodable THEN "none" ELSE "Undecodable",
     writes |-> 0, logged |-> <<>>, trace |-> <<>>, not_impl |-> 0, after |-> None,
     changelog |-> <<>>]

RECURSIVE CountDeliveries(_)
CountDeliveries(rs) ==
    IF rs = <<>> THEN 0 ELSE Head(rs).tries + 1 + CountDeliveries(Tail(rs))

\* handle_transaction(manager, item) up to the call of manager.handle_transaction:
\* a record that does not parse is handed back with ret_id = None.
Deliver(w, id, data) ==
    IF data.decodable
    THEN workers' = [workers EXCEPT ![w] =
                        [IdleWorker EXCEPT !.pc = "loop", !.record = id,
                                           !.instructions = break_transaction(data.tx),
                                           !.ixlen = Len(break_transaction(data.tx))]]
    ELSE UNCHANGED workers

\* The end of handle_transaction(manager, item): ret_id = Some(id) on Ok and on
\* NotImplemented, and the id is acknowledged; None on every other error.
Finish(w, ws, result) ==
    /\ records' = [records EXCEPT ![ws.record] =
                      [@ EXCEPT !.status = IF result \in {"Ok", "NotImplemented"}
                                           THEN "acked" ELSE "pending",
                                !.result = result, !.writes = ws.writes,
                                !.logged = ws.logged, !.trace = ws.trace,
                                !.not_impl = ws.not_impl,
                                !.changelog = compressed_data_changelog,
                                !.after = Snapshot]]
    /\ workers' = [workers EXCEPT ![w] = IdleWorker]

\* A record of `datas` arrives on the stream and a future is made for it.
StartTransactionFrom(w, datas, limit) ==
    /\ workers[w].pc = "idle"
    /\ CountDeliveries(records) < limit
    /\ \E data \in datas :
          /\ records' = Append(records, NewRecord(data))
          /\ Deliver(w, Len(records) + 1, data)
    /\ UNCHANGED <<merkle_tree, compressed_data, compressed_data_changelog, character_history>>
    /\ UNCHANGED <<ingestVars, assetVars>>

\* The broker hands out again a record that was not acknowledged.
RedeliverUpTo(w, limit) ==
    /\ workers[w].pc = "idle"
    /\ CountDeliveries(records) < limit
    /\ \E id \in DOMAIN records :
          /\ records[id].status = "pending"
          /\ records' = [records EXCEPT ![id].tries = @ + 1,
                                        ![id].status = IF records[id].data.decodable
                                                       THEN "in_flight" ELSE "pending"]
          /\ Deliver(w, id, records[id].data)
    /\ UNCHANGED <<merkle_tree, compressed_data, compressed_data_changelog, character_history>>
    /\ UNCHANGED <<ingestVars, assetVars>>

(***************************************************************************)
(* ProgramTransformer::handle_transaction.                                 *)
(***************************************************************************)
NoopReturn_Silent(ws, event, err) ==
    [ws EXCEPT !.pc = "loop", !.l = <<>>,
               !.trace = Append(@, [op |-> "done", index |-> ws.index])]

\* handle_noop_instruction returns: handle_transaction logs an error and goes on.
NoopReturn(ws, event, err) ==
    [ws EXCEPT !.pc = "loop", !.l = <<>>,
               !.logged = IF err = "Ok" THEN @
                          ELSE Append(@, [error |-> err, event |-> event]),
               !.trace = Append(@, [op |-> "done", index |-> ws.index])]

\* handle_noop_instruction up to its first query.
handle_noop_instruction(ws, data) ==
    LET begin == [ws EXCEPT !.trace = Append(@, [op |-> "handle", index |-> ws.index])]
    IN  IF data.kind # "ApplicationData"
        THEN NoopReturn(begin, None, "Ok")
        ELSE CASE data.event.kind = "Undecodable" ->
                    NoopReturn(begin, data.event, "CompressedDataParseError")
               [] data.event.kind = "TreeSchemaValue" ->
                    [begin EXCEPT !.pc = "handle_tree", !.l = [event |-> data.event]]
               [] data.event.kind = "Leaf" /\ data.event.stream_type.kind = "Full" ->
                    [begin EXCEPT !.pc = "full_find_tree", !.l = [event |-> data.event]]
               [] data.event.kind = "Leaf" /\ data.event.stream_type.kind = "PatchChunk" ->
                    [begin EXCEPT !.pc = "patch_find_leaf", !.l = [event |-> data.event]]
               [] data.event.kind = "Leaf" /\ data.event.stream_type.kind = "Empty" ->
                    [begin EXCEPT !.pc = "empty_find", !.l = [event |-> data.event]]

\* The body of the for loop from the decoder on.
Dispatch(w, ws, pair) ==
    CASE pair.program = "Noop" ->
            IF pair.instruction.data.kind = "Empty"
            THEN Finish(w, ws, "InstructionParsingError")
            ELSE /\ workers' = [workers EXCEPT ![w] =
                                   handle_noop_instruction(ws, pair.instruction.data)]
                 /\ UNCHANGED records
      [] pair.program \in {"Bubblegum", "AccountCompression"} ->
            /\ workers' = [workers EXCEPT ![w] =
                              [ws EXCEPT !.pc = "handler",
                                         !.trace = Append(@, [op |-> "handle", index |-> ws.index])]]
            /\ UNCHANGED records
      [] OTHER ->
            /\ workers' = [workers EXCEPT ![w] = [ws EXCEPT !.not_impl = @ + 1]]
            /\ UNCHANGED records

LoopResult_AnyIgnored(not_impl, ixlen) == IF not_impl > 0 THEN "NotImplemented" ELSE "Ok"

\* What handle_transaction returns after the loop.
LoopResult(not_impl, ixlen) == IF not_impl = ixlen THEN "NotImplemented" ELSE "Ok"

\* One turn of `for (outer_ix, inner_ix) in instructions`, or the end of the
\* function when the queue is used up.
NextInstruction(w) ==
    LET ws == workers[w]
    IN  /\ ws.pc = "loop"
        /\ IF ws.instructions = <<>>
           THEN Finish(w, ws, LoopResult(ws.not_impl, ws.ixlen))
           ELSE LET pair == NextPair(ws.instructions)
                    at == [ws EXCEPT !.instructions = RestPairs(ws.instructions),
                                     !.index = ws.index + 1]
                    decoded == [at EXCEPT !.trace = Append(@, [op |-> "decode",
                                                               index |-> at.index,
                                                               pair |-> pair,
                                                               keys |-> InstructionKeys(
                                                                   records[ws.record].data.tx.account_keys,
                                                                   pair.instruction.accounts)])]
                IN  IF records[ws.record].data.tx.account_keys < MaxIndex(pair.instruction.accounts)
                    THEN Finish(w, at, "DeserializationError")
                    ELSE Dispatch(w, decoded, pair)
        /\ UNCHANGED <<merkle_tree, compressed_data, compressed_data_changelog, character_history>>
        /\ UNCHANGED <<ingestVars, assetVars>>

\* handle_bubblegum_instruction / handle_account_compression_instruction return:
\* what they do to their tables is outside this model, their error ends the
\* transaction.
HandlerReturn(w) ==
    LET ws == workers[w]
    IN  /\ ws.pc = "handler"
        /\ \E ok \in BOOLEAN :
              IF ok
              THEN /\ workers' = [workers EXCEPT ![w] =
                                     [ws EXCEPT !.pc = "loop", !.writes = @ + 1,
                                                !.trace = Append(@, [op |-> "done",
                                                                     index |-> ws.index])]]
                   /\ UNCHANGED records
              ELSE Finish(w, ws, "StorageWriteError")
        /\ UNCHANGED <<merkle_tree, compressed_data, compressed_data_changelog, character_history>>
        /\ UNCHANGED <<ingestVars, assetVars>>

(***************************************************************************)
(* The noop handler, one action per query: between two queries of one      *)
(* future the queries of the other futures may run, and no database        *)
(* transaction is opened (the handler is given `&self.storage`).           *)
(***************************************************************************)
EventId(event) == CompressedDataId(event.tree_id, event.leaf_idx)

\* new_character_event before its find.
new_character_event(ws, character_id, event_data, event, slot, ret) ==
    [ws EXCEPT !.pc = "nce_find",
               !.l = [nce |-> [character_id |-> character_id, event_data |-> event_data,
                               event |-> event, slot |-> slot, ret |-> ret]] @@ ws.l]

HandleTree_KeepsSchema(w) ==
    LET ws == workers[w]
        event == ws.l.event
    IN  /\ ws.pc = "handle_tree"
        /\ merkle_tree' =
              IF event.tree_id \in DOMAIN merkle_tree
              THEN merkle_tree
              ELSE MapInsert(merkle_tree, event.tree_id,
                             [id |-> event.tree_id, data_schema |-> Borsh(event.schema),
                              program |-> Some(event.program_id)])
        /\ workers' = [workers EXCEPT ![w] =
                          NoopReturn([ws EXCEPT !.writes = @ + 1], event, "Ok")]
        /\ UNCHANGED <<compressed_data, compressed_data_changelog, character_history, records>>
        /\ UNCHANGED <<ingestVars, assetVars>>

\* handle_tree: insert, or on conflict on the id update data_schema alone.
HandleTree(w) ==
    LET ws == workers[w]
        event == ws.l.event
    IN  /\ ws.pc = "handle_tree"
        /\ merkle_tree' =
              IF event.tree_id \in DOMAIN merkle_tree
              THEN [merkle_tree EXCEPT ![event.tree_id].data_schema = Borsh(event.schema)]
              ELSE MapInsert(merkle_tree, event.tree_id,
                             [id |-> event.tree_id, data_schema |-> Borsh(event.schema),
                              program |-> Some(event.program_id)])
        /\ workers' = [workers EXCEPT ![w] =
                          NoopReturn([ws EXCEPT !.writes = @ + 1], event, "Ok")]
        /\ UNCHANGED <<compressed_data, compressed_data_changelog, character_history, records>>
        /\ UNCHANGED <<ingestVars, assetVars>>

\* handle_full_leaf: the find of the tree and the validation.
FullFindTree(w) ==
    LET ws == workers[w]
        event == ws.l.event
        data == event.stream_type.data
        tree == Lookup(merkle_tree, event.tree_id)
    IN  /\ ws.pc = "full_find_tree"
        /\ workers' = [workers EXCEPT ![w] =
              IF IsNone(tree)
              THEN [ws EXCEPT !.pc = "full_upsert",
                              !.l = [event |-> event, schema_validated |-> FALSE,
                                     program_id |-> None]]
              ELSE IF IsNone(tree.some.program)
                   THEN NoopReturn(ws, event, "CompressedDataParseError")
                   ELSE IF ~Validate(Unborsh(tree.some.data_schema), data)
                        THEN NoopReturn(ws, event, "CompressedDataParseError")
                        ELSE [ws EXCEPT !.pc = "full_upsert",
                                        !.l = [event |-> event, schema_validated |-> TRUE,
                                               program_id |-> tree.some.program]]]
        /\ UNCHANGED <<merkle_tree, compressed_data, compressed_data_changelog,
                       character_history, records>>
        /\ UNCHANGED <<ingestVars, assetVars>>

\* handle_full_leaf: the upsert, every column taken from the event.
FullUpsert(w) ==
    LET ws == workers[w]
        event == ws.l.event
        data == event.stream_type.data
        id == EventId(event)
        wrote == [ws EXCEPT !.writes = @ + 1]
    IN  /\ ws.pc = "full_upsert"
        /\ compressed_data' =
              MapInsert(compressed_data, id,
                        [id |-> id, tree_id |-> event.tree_id, leaf_idx |-> event.leaf_idx,
                         seq |-> event.seq, schema_validated |-> ws.l.schema_validated,
                         raw_data |-> Borsh(data), parsed_data |-> ToJson(data),
                         slot_updated |-> event.slot])
        /\ workers' = [workers EXCEPT ![w] =
              IF /\ ws.l.program_id = Some(CharacterManagerId)
                 /\ data.t = "Object"
                 /\ "used_by" \in DOMAIN data.fields
              THEN new_character_event(wrote, id, data.fields["used_by"], "NewCharacter",
                                       event.slot, "changelog")
              ELSE [wrote EXCEPT !.pc = "changelog"]]
        /\ UNCHANGED <<merkle_tree, compressed_data_changelog, character_history, records>>
        /\ UNCHANGED <<ingestVars, assetVars>>

\* new_character_event: the find by (character_id, event, slot_updated).
NceFind(w) ==
    LET ws == workers[w]
        nce == ws.l.nce
        found == \E i \in DOMAIN character_history :
                    /\ character_history[i].character_id = nce.character_id
                    /\ character_history[i].event = nce.event
                    /\ character_history[i].slot_updated = nce.slot
    IN  /\ ws.pc = "nce_find"
        /\ workers' = [workers EXCEPT ![w].pc = IF found THEN nce.ret ELSE "nce_insert"]
        /\ UNCHANGED <<merkle_tree, compressed_data, compressed_data_changelog,
                       character_history, records>>
        /\ UNCHANGED <<ingestVars, assetVars>>

\* new_character_event: the insert.
NceInsert(w) ==
    LET ws == workers[w]
        nce == ws.l.nce
    IN  /\ ws.pc = "nce_insert"
        /\ character_history' =
              Append(character_history,
                     [id |-> Len(character_history) + 1, event |-> nce.event,
                      event_data |-> ToJson(nce.event_data),
                      character_id |-> nce.character_id, slot_updated |-> nce.slot])
        /\ workers' = [workers EXCEPT ![w].pc = nce.ret, ![w].writes = @ + 1]
        /\ UNCHANGED <<merkle_tree, compressed_data, compressed_data_changelog, records>>
        /\ UNCHANGED <<ingestVars, assetVars>>

ChangeLogRow_KeyAlways(event) ==
    [tree_id |-> event.tree_id, leaf_idx |-> event.leaf_idx,
     key |-> Some(IF event.stream_type.kind = "PatchChunk" THEN event.stream_type.key ELSE ""),
     data |-> ToJson(event.stream_type.data), seq |-> event.seq, slot |-> event.slot]

\* The row handle_change_log inserts: patch_key and patch_data as handle_leaf
\* has set them for the stream type.
ChangeLogRow(event) ==
    [tree_id |-> event.tree_id, leaf_idx |-> event.leaf_idx,
     key |-> IF event.stream_type.kind = "PatchChunk"
             THEN Some(event.stream_type.key) ELSE None,
     data |-> ToJson(event.stream_type.data), seq |-> event.seq, slot |-> event.slot]

\* handle_change_log, after a Full and after a PatchChunk.
HandleChangeLog(w) ==
    LET ws == workers[w]
        event == ws.l.event
    IN  /\ ws.pc = "changelog"
        /\ compressed_data_changelog' = Append(compressed_data_changelog, ChangeLogRow(event))
        /\ workers' = [workers EXCEPT ![w] =
                          NoopReturn([ws EXCEPT !.writes = @ + 1], event, "Ok")]
        /\ UNCHANGED <<merkle_tree, compressed_data, character_history, records>>
        /\ UNCHANGED <<ingestVars, assetVars>>

\* handle_empty_leaf: the find.
EmptyFind(w) ==
    LET ws == workers[w]
        event == ws.l.event
    IN  /\ ws.pc = "empty_find"
        /\ workers' = [workers EXCEPT ![w] =
              IF EventId(event) \in DOMAIN compressed_data
              THEN [ws EXCEPT !.pc = "empty_delete"]
              ELSE NoopReturn(ws, event, "StorageReadError: Could not find old data in db")]
        /\ UNCHANGED <<merkle_tree, compressed_data, compressed_data_changelog,
                       character_history, records>>
        /\ UNCHANGED <<ingestVars, assetVars>>

EmptyDelete_KeepsRow(w) ==
    LET ws == workers[w]
    IN  /\ ws.pc = "empty_delete"
        /\ workers' = [workers EXCEPT ![w] = NoopReturn(ws, ws.l.event, "Ok")]
        /\ UNCHANGED <<merkle_tree, compressed_data, compressed_data_changelog,
                       character_history, records>>
        /\ UNCHANGED <<ingestVars, assetVars>>

\* handle_empty_leaf: the delete; handle_leaf adds no change-log row.
EmptyDelete(w) ==
    LET ws == workers[w]
        event == ws.l.event
        id == EventId(event)
    IN  /\ ws.pc = "empty_delete"
        /\ compressed_data' = MapRemove(compressed_data, id)
        /\ workers' = [workers EXCEPT ![w] =
              NoopReturn([ws EXCEPT !.writes = IF id \in DOMAIN compressed_data
                                               THEN @ + 1 ELSE @], event, "Ok")]
        /\ UNCHANGED <<merkle_tree, compressed_data_changelog, character_history, records>>
        /\ UNCHANGED <<ingestVars, assetVars>>

\* handle_leaf_patch: the find of the leaf row.
PatchFindLeaf(w) ==
    LET ws == workers[w]
        event == ws.l.event
        found == Lookup(compressed_data, EventId(event))
    IN  /\ ws.pc = "patch_find_leaf"
        /\ workers' = [workers EXCEPT ![w] =
              IF IsNone(found)
              THEN NoopReturn(ws, event, "StorageReadError: Could not find old data in db")
              ELSE [ws EXCEPT !.pc = "patch_find_tree",
                              !.l = [event |-> event, found |-> found.some]]]
        /\ UNCHANGED <<merkle_tree, compressed_data, compressed_data_changelog,
                       character_history, records>>
        /\ UNCHANGED <<ingestVars, assetVars>>

\* log_character_history up to its first query; the patch goes on at
\* "patch_update" when it returns Ok.
log_character_history(ws, character_id, pre_used_by, new_used_by, slot) ==
    IF pre_used_by.t # "Enum" \/ new_used_by.t # "Enum"
    THEN [ws EXCEPT !.pc = "patch_update"]
    ELSE LET event == HistoryEvent(pre_used_by.kind, new_used_by.kind)
         IN  IF event = ""
             THEN [ws EXCEPT !.pc = "patch_update"]
             ELSE IF /\ event = "RecallFromMission"
                     /\ is_any_reward_collected(pre_used_by.params)
                     /\ "participation_id" \in DOMAIN pre_used_by.params.fields
                  THEN [ws EXCEPT !.pc = "lch_find_history",
                                  !.l = [pre_used_by |-> pre_used_by,
                                         new_used_by |-> new_used_by] @@ ws.l]
                  ELSE new_character_event(ws, character_id, new_used_by, event, slot,
                                           "patch_update")

PatchedData_Untouched(parsed_data, key, data) == parsed_data

\* object.insert(key, data.into()) where parsed_data is an object that
\* contains the key; parsed_data as it was read otherwise.
PatchedData(parsed_data, key, data) ==
    IF parsed_data.j = "Object" /\ key \in DOMAIN parsed_data.fields
    THEN JObject(MapInsert(parsed_data.fields, key, ToJson(data)))
    ELSE parsed_data

\* handle_leaf_patch: the find of the tree, and the patch of the row that was
\* read.
PatchFindTree(w) ==
    LET ws == workers[w]
        event == ws.l.event
        found == ws.l.found
        key == event.stream_type.key
        data == event.stream_type.data
        tree == Lookup(merkle_tree, found.tree_id)
        parsed_data == found.parsed_data
        contains_key == parsed_data.j = "Object" /\ key \in DOMAIN parsed_data.fields
        patched == PatchedData(parsed_data, key, data)
        next == [ws EXCEPT !.pc = "patch_update",
                           !.l = [event |-> event, found |-> found, parsed_data |-> patched]]
    IN  /\ ws.pc = "patch_find_tree"
        /\ workers' =
              IF ~IsNone(tree) /\ IsNone(tree.some.program)
              THEN \* tree.program.unwrap() panics, and the worker task with it
                   [v \in Workers |-> [workers[v] EXCEPT !.pc = "panicked"]]
              ELSE [workers EXCEPT ![w] =
                      IF /\ contains_key
                         /\ key = "used_by"
                         /\ ~IsNone(tree)
                         /\ tree.some.program = Some(CharacterManagerId)
                      THEN log_character_history(next, found.id,
                                                 FromJson(parsed_data.fields["used_by"]),
                                                 data, event.slot)
                      ELSE next]
        /\ UNCHANGED <<merkle_tree, compressed_data, compressed_data_changelog,
                       character_history, records>>
        /\ UNCHANGED <<ingestVars, assetVars>>

\* update_new_used_by once the rewards are known: the value logged is
\* None with the consolidated params.
Consolidated(ws, ids, all_rewards) ==
    new_character_event(
        ws, ws.l.found.id,
        SEnum("None", FromJson(create_params(ws.l.pre_used_by.kind, ids, all_rewards,
                                              ids[Len(ids)]))),
        "RecallFromMission", ws.l.event.slot, "patch_update")

\* log_character_history: the find of the history rows of the participation.
LchFindHistory(w) ==
    LET ws == workers[w]
        participation_id == ws.l.pre_used_by.params.fields["participation_id"]
        found == FindParticipation(character_history, participation_id.v)
        ids == [i \in DOMAIN found |-> found[i].id]
        last == found[Len(found)].event_data
        has_mission == /\ last.j = "Object"
                       /\ "params" \in DOMAIN last.fields
                       /\ last.fields["params"].j = "Object"
                       /\ "mission_id" \in DOMAIN last.fields["params"].fields
                       /\ last.fields["params"].fields["mission_id"].j = "String"
        stripped_id == StripPrefix(last.fields["params"].fields["mission_id"].v)
        id_vec == Bs58Decode(stripped_id.some)
    IN  /\ ws.pc = "lch_find_history"
        /\ workers' = [workers EXCEPT ![w] =
              IF found = <<>>
              THEN NoopReturn(ws, ws.l.event,
                              "StorageReadError: Could not find old character history data in the db")
              ELSE IF ~has_mission
                   THEN Consolidated(ws, ids, <<>>)
                   ELSE IF IsNone(stripped_id) \/ IsNone(id_vec)
                        THEN NoopReturn(ws, ws.l.event, "ParsingError")
                        ELSE [ws EXCEPT !.pc = "lch_find_account",
                                        !.l = [ids |-> ids, id_vec |-> id_vec.some,
                                               params |-> last.fields["params"]] @@ ws.l]]
        /\ UNCHANGED <<merkle_tree, compressed_data, compressed_data_changelog,
                       character_history, records>>
        /\ UNCHANGED <<ingestVars, assetVars>>

\* update_new_used_by from the find of the mission account on, given what the
\* find returned.
FoundAccount(w, account) ==
    LET ws == workers[w]
        parsed_json == account.some.parsed_data
        params == ws.l.params
        all_rewards ==
            IF /\ "rewards" \in DOMAIN parsed_json.fields
               /\ parsed_json.fields["rewards"].j = "Array"
               /\ "rewards" \in DOMAIN params.fields
               /\ params.fields["rewards"].j = "Array"
            THEN AllRewards(params.fields["rewards"].items,
                            parsed_json.fields["rewards"].items)
            ELSE <<>>
    IN  /\ ws.pc = "lch_find_account"
        /\ workers' = [workers EXCEPT ![w] =
              IF IsNone(account)
              THEN NoopReturn(ws, ws.l.event,
                              "StorageReadError: Could not find account data in db")
              ELSE IF parsed_json.j # "Object"
                   THEN NoopReturn(ws, ws.l.event, "ParsingError")
                   ELSE Consolidated(ws, ws.l.ids, all_rewards)]
        /\ UNCHANGED <<merkle_tree, compressed_data, compressed_data_changelog,
                       character_history, records>>
        /\ UNCHANGED <<ingestVars, assetVars>>

\* update_new_used_by: the find of the mission account, in an accounts table
\* that holds the account or does not hold it yet (the table is filled by
\* the account stream).
LchFindAccount(w) ==
    \E table \in {AccountsTable, EmptyMap} :
        FoundAccount(w, Lookup(table, workers[w].l.id_vec))

PatchUpdate_WholeRow(w) ==
    LET ws == workers[w]
        id == ws.l.found.id
        exists == id \in DOMAIN compressed_data
    IN  /\ ws.pc = "patch_update"
        /\ compressed_data' =
              IF exists
              THEN [compressed_data EXCEPT ![id].parsed_data = ws.l.parsed_data,
                                           ![id].slot_updated = ws.l.event.slot,
                                           ![id].seq = ws.l.event.seq]
              ELSE compressed_data
        /\ workers' = [workers EXCEPT ![w].pc = "changelog",
                                      ![w].writes = IF exists THEN @ + 1 ELSE @]
        /\ UNCHANGED <<merkle_tree, compressed_data_changelog, character_history, records>>
        /\ UNCHANGED <<ingestVars, assetVars>>

\* handle_leaf_patch: the update.  It writes parsed_data and slot_updated, the
\* two columns that were set on the row that was read.
PatchUpdate(w) ==
    LET ws == workers[w]
        id == ws.l.found.id
        exists == id \in DOMAIN compressed_data
    IN  /\ ws.pc = "patch_update"
        /\ compressed_data' =
              IF exists
              THEN [compressed_data EXCEPT ![id].parsed_data = ws.l.parsed_data,
                                           ![id].slot_updated = ws.l.event.slot]
              ELSE compressed_data
        /\ workers' = [workers EXCEPT ![w].pc = "changelog",
                                      ![w].writes = IF exists THEN @ + 1 ELSE @]
        /\ UNCHANGED <<merkle_tree, compressed_data_changelog, character_history, records>>
        /\ UNCHANGED <<ingestVars, assetVars>>

(***************************************************************************)
(* LedgerSpec: one future at a time handles transactions that carry one    *)
(* noop instruction with an application-data event, on a store whose       *)
(* merkle_tree table is empty or holds the tree.                           *)
(***************************************************************************)
MaxLedgerTxs == 3

NoopTx(event) ==
    RecordData(TransactionInfo(1, << Instruction("Noop", <<0>>,
                                                 [kind |-> "ApplicationData", event |-> event],
                                                 <<>>) >>))

LedgerTxs == {NoopTx(event) : event \in Events}

\* The rows handle_tree writes, and a row written before the program column
\* was filled.
TreeRows(tree_id) ==
    {[id |-> tree_id, data_schema |-> Borsh(schema), program |-> program] :
        schema \in Schemas,
        program \in {Some(CharacterManagerId), Some(OtherProgramId), None}}

InitialTrees ==
    {EmptyMap} \cup UNION {{MapInsert(EmptyMap, tree_id, row) : row \in TreeRows(tree_id)} :
                           tree_id \in TreeIds}

LedgerInit ==
    /\ IngestStart
    /\ asset = EmptyMap
    /\ token_accounts = EmptyMap
    /\ dao_accounts = EmptyMap
    /\ OpsIdle
    /\ merkle_tree \in InitialTrees
    /\ compressed_data = EmptyMap
    /\ compressed_data_changelog = <<>>
    /\ character_history = <<>>
    /\ workers = [w \in Workers |-> IdleWorker]
    /\ records = <<>>

LedgerStart == StartTransactionFrom(1, LedgerTxs, MaxLedgerTxs)

LedgerNext ==
    \/ LedgerStart
    \/ \E w \in Workers : NextInstruction(w)
    \/ \E w \in Workers : HandleTree(w)
    \/ \E w \in Workers : FullFindTree(w)
    \/ \E w \in Workers : FullUpsert(w)
    \/ \E w \in Workers : NceFind(w)
    \/ \E w \in Workers : NceInsert(w)
    \/ \E w \in Workers : HandleChangeLog(w)
    \/ \E w \in Workers : EmptyFind(w)
    \/ \E w \in Workers : EmptyDelete(w)
    \/ \E w \in Workers : PatchFindLeaf(w)
    \/ \E w \in Workers : PatchFindTree(w)
    \/ \E w \in Workers : LchFindHistory(w)
    \/ \E w \in Workers : LchFindAccount(w)
    \/ \E w \in Workers : PatchUpdate(w)

LedgerSpec == LedgerInit /\ [][LedgerNext]_vars

(***************************************************************************)
(* Claims about the ledger.                                                *)
(***************************************************************************)
Finished(id) == records[id].result # "none"

LeafEventOf(id) == records[id].data.tx.message_instructions[1].data.event

IsLeafRecord(id, kind) ==
    /\ records[id].data.decodable
    /\ LeafEventOf(id).kind = "Leaf"
    /\ LeafEventOf(id).stream_type.kind = kind

\* C1 (its safety half): a record is acknowledged only after a store
\* mutation was committed for it or after handle_transaction returned
\* NotImplemented.
C1_AckedAfterOutcome ==
    \A id \in DOMAIN records :
        records[id].status = "acked"
            => records[id].result = "NotImplemented" \/ records[id].writes > 0

\* C7: the same Leaf event applied twice in a row leaves the store as after
\* one application: a Full after the same Full, and a PatchChunk after the
\* same PatchChunk that follows a Full of the leaf; compared are the
\* compressed_data rows, and the change-log and character-history rows with
\* their identities left aside.
C7_ReplayIdempotent ==
    \A id \in DOMAIN records :
        /\ id >= 2
        /\ Finished(id)
        /\ records[id].data = records[id - 1].data
        /\ \/ IsLeafRecord(id, "Full")
           \/ /\ IsLeafRecord(id, "PatchChunk")
              /\ id >= 3
              /\ IsLeafRecord(id - 2, "Full")
              /\ EventId(LeafEventOf(id - 2)) = EventId(LeafEventOf(id))
        => records[id].after = records[id - 1].after

\* C9: the seq of a compressed_data row never decreases, and an event whose
\* seq is lower than the row's does not change the row.
C9_LatestSeqWins ==
    [][\A id \in (DOMAIN compressed_data) \cap (DOMAIN compressed_data') :
          /\ compressed_data'[id].seq >= compressed_data[id].seq
          /\ \A w \in Workers :
                /\ workers[w].pc \in {"full_upsert", "patch_update"}
                /\ workers'[w].pc # workers[w].pc
                /\ EventId(workers[w].l.event) = id
                /\ workers[w].l.event.seq < compressed_data[id].seq
                => compressed_data'[id] = compressed_data[id]]_vars

NoOldData == "StorageReadError: Could not find old data in db"

PatchFoundNoRow(id) ==
    \E i \in DOMAIN records[id].logged :
        /\ records[id].logged[i].error = NoOldData
        /\ records[id].logged[i].event.stream_type.kind = "PatchChunk"

\* C10: a transaction with a PatchChunk for a leaf that has no row ends with
\* StorageReadError, and its record is left unacknowledged.
C10_PatchWithoutFullSurfaces ==
    \A id \in DOMAIN records :
        Finished(id) /\ PatchFoundNoRow(id)
            => records[id].result = NoOldData /\ records[id].status = "pending"

(***************************************************************************)
(* DispatchSpec: one record is delivered, and delivered again while it is  *)
(* not acknowledged; its transaction has up to MaxIx outer instructions.   *)
(***************************************************************************)
MaxIx == 3

MaxDispatchDeliveries == 2

DispatchAccountKeys == 2

DispatchFull ==
    [kind |-> "Leaf", slot |-> 1, tree_id |-> "T", leaf_idx |-> 0, seq |-> 1,
     stream_type |-> [kind |-> "Full", data |-> Character]]

DispatchPatch ==
    [kind |-> "Leaf", slot |-> 1, tree_id |-> "T", leaf_idx |-> 0, seq |-> 1,
     stream_type |-> [kind |-> "PatchChunk", key |-> "color", data |-> SString(<<"blue">>)]]

NoopIx(event) == Instruction("Noop", <<0>>, [kind |-> "ApplicationData", event |-> event], <<>>)

OuterIxs ==
    { Instruction("Bubblegum", <<0, 1>>, [kind |-> "Instruction"], <<>>),
      Instruction("Bubblegum", <<DispatchAccountKeys + 1>>, [kind |-> "Instruction"], <<>>),
      Instruction("AccountCompression", <<0>>, [kind |-> "Instruction"], <<>>),
      Instruction("AccountCompression", <<0, DispatchAccountKeys>>, [kind |-> "Instruction"], <<>>),
      NoopIx(DispatchFull),
      NoopIx(DispatchPatch),
      Instruction("Noop", <<>>, [kind |-> "Empty"], <<>>),
      Instruction("Noop", <<>>, [kind |-> "ChangeLog"], <<>>),
      Instruction("HplCharacterManager", <<0>>, [kind |-> "Instruction"], <<>>),
      Instruction("System", <<0>>, [kind |-> "Instruction"], <<NoopIx(DispatchFull)>>) }

DispatchTxs ==
    {RecordData(TransactionInfo(DispatchAccountKeys, ixs)) :
        ixs \in UNION {[1..n -> OuterIxs] : n \in 0..MaxIx}}
    \cup {UndecodableData}

DispatchInit == IngestStart /\ TransformerIdle

DispatchStart == StartTransactionFrom(1, DispatchTxs, 1)

DispatchRedeliver == RedeliverUpTo(1, MaxDispatchDeliveries)

DispatchNext ==
    \/ DispatchStart
    \/ DispatchRedeliver
    \/ \E w \in Workers : NextInstruction(w)
    \/ \E w \in Workers : HandlerReturn(w)
    \/ \E w \in Workers : FullFindTree(w)
    \/ \E w \in Workers : FullUpsert(w)
    \/ \E w \in Workers : HandleChangeLog(w)
    \/ \E w \in Workers : PatchFindLeaf(w)
    \/ \E w \in Workers : PatchFindTree(w)
    \/ \E w \in Workers : PatchUpdate(w)

DispatchSpec == DispatchInit /\ [][DispatchNext]_vars

\* The queue break_transaction returned for a record.
QueueOf(id) == break_transaction(records[id].data.tx)

DecodesBefore(trace, k) == Cardinality({m \in 1..(k - 1) : trace[m].op = "decode"})

OrderedDispatch(trace, queue) ==
    \A k \in DOMAIN trace :
        /\ trace[k].op = "decode" =>
              /\ trace[k].index = DecodesBefore(trace, k) + 1
              /\ trace[k].index \in DOMAIN queue
              /\ trace[k].pair = queue[trace[k].index]
              /\ \A m \in 1..(k - 1) :
                    trace[m].op = "handle" =>
                        \E n \in (m + 1)..(k - 1) :
                            trace[n].op = "done" /\ trace[n].index = trace[m].index
        /\ trace[k].op = "handle" =>
              /\ k > 1
              /\ trace[k - 1].op = "decode"
              /\ trace[k - 1].index = trace[k].index
        /\ trace[k].op = "done" =>
              \E m \in 1..(k - 1) :
                  /\ trace[m].op = "handle"
                  /\ trace[m].index = trace[k].index
                  /\ \A n \in (m + 1)..(k - 1) : trace[n].op # "decode"

\* C6: the decoders and handlers of the pairs of break_transaction run one
\* at a time in queue order: the j-th decoder invoked is that of the j-th
\* pair, a handler starts right after its decoder, and it has completed
\* before the next decoder is invoked.
C6_OrderedDispatch ==
    /\ \A w \in Workers :
          workers[w].record # 0 =>
              OrderedDispatch(workers[w].trace, QueueOf(workers[w].record))
    /\ \A id \in DOMAIN records :
          records[id].data.decodable =>
              OrderedDispatch(records[id].trace, QueueOf(id))

C6_Witness ==
    \E id \in DOMAIN records :
        /\ records[id].result = "Ok"
        /\ Len(QueueOf(id)) = 3
        /\ QueueOf(id)[1].program = "Noop"
        /\ QueueOf(id)[2].program = "AccountCompression"
        /\ QueueOf(id)[3].program = "HplCharacterManager"
        /\ records[id].writes = 3
        /\ Len(records[id].trace) = 7

(***************************************************************************)
(* ConcSpec: a Full for one leaf is handled, then two PatchChunk records   *)
(* for that leaf, on different keys of its object, are handled by futures  *)
(* that run concurrently (FuturesUnordered in the stream worker).          *)
(***************************************************************************)
ConcFulls ==
    {NoopTx(event) : event \in {e \in LeafEvents : /\ e.stream_type.kind = "Full"
                                                    /\ e.stream_type.data = Character}}

ConcPatches ==
    {NoopTx(event) : event \in {e \in LeafEvents :
                                   /\ e.stream_type.kind = "PatchChunk"
                                   /\ e.stream_type.key \in DOMAIN Character.fields
                                   /\ e.stream_type.data # Character.fields[e.stream_type.key]}}

PatchedKeys == {LeafEventOf(id).stream_type.key :
                    id \in {i \in DOMAIN records : IsLeafRecord(i, "PatchChunk")}}

\* What the stream delivers next in this scenario.
ConcDeliverable ==
    IF records = <<>>
    THEN ConcFulls
    ELSE IF Finished(1) /\ Len(records) < 3
         THEN {data \in ConcPatches :
                  /\ data.tx.message_instructions[1].data.event.stream_type.key \notin PatchedKeys
                  /\ EventId(data.tx.message_instructions[1].data.event) = EventId(LeafEventOf(1))}
         ELSE {}

ConcInit == IngestStart /\ TransformerIdle

ConcStart == \E w \in Workers : StartTransactionFrom(w, ConcDeliverable, 3)

ConcNext ==
    \/ ConcStart
    \/ \E w \in Workers : NextInstruction(w)
    \/ \E w \in Workers : FullFindTree(w)
    \/ \E w \in Workers : FullUpsert(w)
    \/ \E w \in Workers : HandleChangeLog(w)
    \/ \E w \in Workers : PatchFindLeaf(w)
    \/ \E w \in Workers : PatchFindTree(w)
    \/ \E w \in Workers : PatchUpdate(w)

ConcSpec == ConcInit /\ [][ConcNext]_vars

Applied(id) == Finished(id) /\ records[id].logged = <<>>

\* C8: when two PatchChunk handlers on one leaf that patch different keys
\* have both completed, whatever their interleaving, the compressed_data
\* row holds both patched values.
C8_NoLostUpdate ==
    \A a, b \in DOMAIN records :
        /\ a # b
        /\ IsLeafRecord(a, "PatchChunk")
        /\ IsLeafRecord(b, "PatchChunk")
        /\ Applied(a)
        /\ Applied(b)
        /\ EventId(LeafEventOf(a)) = EventId(LeafEventOf(b))
        /\ LeafEventOf(a).stream_type.key # LeafEventOf(b).stream_type.key
        /\ EventId(LeafEventOf(a)) \in DOMAIN compressed_data
        => LET row == compressed_data[EventId(LeafEventOf(a))]
           IN  /\ row.parsed_data.fields[LeafEventOf(a).stream_type.key]
                    = ToJson(LeafEventOf(a).stream_type.data)
               /\ row.parsed_data.fields[LeafEventOf(b).stream_type.key]
                    = ToJson(LeafEventOf(b).stream_type.data)

(***************************************************************************)
(* AckSpec: the account stream and the transaction stream side by side.    *)
(* A record of either stream is handled by its stream's handler, which     *)
(* returns the record's id when the record is to be acknowledged.          *)
(***************************************************************************)
MaxAckDeliveries == 2

\* The owners of the account updates: programs with an account handler, a
\* program with a parser whose result has none, and a program without parser.
AccountOwners == {"TokenMetadata", "TokenProgram", "Noop", "System"}

AccountData ==
    {[decodable |-> TRUE, account |-> [owner |-> owner, parses |-> parses]] :
        owner \in AccountOwners, parses \in BOOLEAN}
    \cup {UndecodableData}

\* ProgramTransformer::handle_account_update: the results it can return for
\* an account update.
handle_account_update(acct) ==
    IF acct.owner \notin {"TokenMetadata", "TokenProgram", "Noop"}
    THEN {"Ok"}
    ELSE IF ~acct.parses
         THEN {"DeserializationError", "ParsingError"}
         ELSE IF acct.owner = "Noop"
              THEN {"NotImplemented"}
              ELSE {"Ok", "StorageWriteError", "StorageReadError"}

\* handle_account up to the call of manager.handle_account_update; a record
\* that does not parse is handed back with ret_id = None.
AccountStart(w) ==
    /\ workers[w].pc = "idle"
    /\ CountDeliveries(records) < MaxAckDeliveries
    /\ \E data \in AccountData :
          /\ records' = Append(records, NewRecord(data))
          /\ workers' = IF data.decodable
                        THEN [workers EXCEPT ![w] =
                                 [IdleWorker EXCEPT !.pc = "handle_account_update",
                                                    !.record = Len(records) + 1]]
                        ELSE workers
    /\ UNCHANGED <<merkle_tree, compressed_data, compressed_data_changelog, character_history>>
    /\ UNCHANGED <<ingestVars, assetVars>>

\* The match on the result of handle_account_update: ret_id = Some(id) on Ok,
\* NotImplemented, DeserializationError and ParsingError, None otherwise.
HandleAccount(w) ==
    LET ws == workers[w]
    IN  /\ ws.pc = "handle_account_update"
        /\ \E res \in handle_account_update(records[ws.record].data.account) :
              records' = [records EXCEPT ![ws.record] =
                            [@ EXCEPT !.status =
                                          IF res \in {"Ok", "NotImplemented",
                                                      "DeserializationError", "ParsingError"}
                                          THEN "acked" ELSE "pending",
                                      !.result = res]]
        /\ workers' = [workers EXCEPT ![w] = IdleWorker]
        /\ UNCHANGED <<merkle_tree, compressed_data, compressed_data_changelog, character_history>>
        /\ UNCHANGED <<ingestVars, assetVars>>

\* Transactions of at most one outer instruction.
AckTxs ==
    {RecordData(TransactionInfo(DispatchAccountKeys, ixs)) :
        ixs \in UNION {[1..n -> OuterIxs] : n \in 0..1}}
    \cup {UndecodableData}

AckInit == IngestStart /\ TransformerIdle

AckStart == StartTransactionFrom(1, AckTxs, MaxAckDeliveries)

AckNext ==
    \/ AckStart
    \/ \E w \in Workers : AccountStart(w)
    \/ \E w \in Workers : HandleAccount(w)
    \/ \E w \in Workers : NextInstruction(w)
    \/ \E w \in Workers : HandlerReturn(w)
    \/ \E w \in Workers : FullFindTree(w)
    \/ \E w \in Workers : FullUpsert(w)
    \/ \E w \in Workers : HandleChangeLog(w)
    \/ \E w \in Workers : PatchFindLeaf(w)
    \/ \E w \in Workers : PatchFindTree(w)
    \/ \E w \in Workers : PatchUpdate(w)

AckSpec == AckInit /\ [][AckNext]_vars

IsAccountRecord(id) == records[id].data.decodable /\ "account" \in DOMAIN records[id].data

ParseErrors == {"DeserializationError", "ParsingError", "InstructionParsingError"}

StorageErrors == {"StorageWriteError", "StorageReadError"}

\* C11: a record of the account stream or of the transaction stream whose
\* handling ended with Ok, with NotImplemented or with a parse or
\* deserialization error is acknowledged, and one whose handling ended with
\* a storage error is left unacknowledged.
C11_AckPolicy ==
    \A id \in DOMAIN records :
        /\ records[id].result \in {"Ok", "NotImplemented"} \cup ParseErrors
              => records[id].status = "acked"
        /\ records[id].result \in StorageErrors => records[id].status = "pending"

(***************************************************************************)
(* Claims about handle_transaction.                                        *)
(***************************************************************************)
OutOfRange(tx, pair) ==
    \E i \in DOMAIN pair.instruction.accounts :
        pair.instruction.accounts[i] >= tx.account_keys

\* The bundles a delivery has built so far: the decode entries of a trace.
Bundles(trace) == {trace[k] : k \in {m \in DOMAIN trace : trace[m].op = "decode"}}

\* C12: no instruction bundle is built for an instruction that has an
\* account index greater than or equal to the number of account keys (so
\* no bundle lacks a key its instruction refers to), and a transaction in
\* which the loop has come to such an instruction has ended with an error.
C12_AccountIndicesInRange ==
    /\ \A w \in Workers :
          workers[w].record # 0 =>
              \A b \in Bundles(workers[w].trace) :
                  /\ ~OutOfRange(records[workers[w].record].data.tx, b.pair)
                  /\ Len(b.keys) = Len(b.pair.instruction.accounts)
    /\ \A id \in DOMAIN records :
          records[id].data.decodable /\ Finished(id) =>
              \A b \in Bundles(records[id].trace) :
                  /\ ~OutOfRange(records[id].data.tx, b.pair)
                  /\ Len(b.keys) = Len(b.pair.instruction.accounts)

\* The programs whose decoded result handle_transaction has a handler for.
HandledPrograms == {"Bubblegum", "AccountCompression", "Noop"}

\* The pairs of a trace that were decoded and have no handler.
Ignored(trace) == {b \in Bundles(trace) : b.pair.program \notin HandledPrograms}

IsTreeRecord(id) ==
    /\ records[id].data.decodable
    /\ LeafEventOf(id).kind = "TreeSchemaValue"

\* No future is at work: the store is as the finished records have left it.
Quiescent == \A w \in Workers : workers[w].pc = "idle"

\* C14: on a store without rows for the tree's leaves, TreeSchemaValue(T, S)
\* followed by Leaf.Full(T, idx, D, seq, slot), where S validates D, leaves
\* one merkle_tree row for T with data_schema = S, one compressed_data row
\* for (T, idx) with that seq, slot_updated = slot, schema_validated = true
\* and parsed_data = D, and exactly one change-log row
\* {T, idx, key = None, data = D, seq, slot}.  (The tree row has an owning
\* program: it was written by handle_tree.)
C14_TreeThenFull ==
    ( /\ Len(records) = 2
      /\ Quiescent
      /\ IsTreeRecord(1)
      /\ IsLeafRecord(2, "Full")
      /\ LeafEventOf(2).tree_id = LeafEventOf(1).tree_id
      /\ Validate(LeafEventOf(1).schema, LeafEventOf(2).stream_type.data)
      /\ LeafEventOf(1).tree_id \in DOMAIN merkle_tree
      /\ ~IsNone(merkle_tree[LeafEventOf(1).tree_id].program) )
    => LET tree == LeafEventOf(1)
           leaf == LeafEventOf(2)
           D == leaf.stream_type.data
       IN  /\ DOMAIN merkle_tree = {tree.tree_id}
           /\ Unborsh(merkle_tree[tree.tree_id].data_schema) = tree.schema
           /\ DOMAIN compressed_data = {EventId(leaf)}
           /\ compressed_data[EventId(leaf)].tree_id = leaf.tree_id
           /\ compressed_data[EventId(leaf)].leaf_idx = leaf.leaf_idx
           /\ compressed_data[EventId(leaf)].seq = leaf.seq
           /\ compressed_data[EventId(leaf)].slot_updated = leaf.slot
           /\ compressed_data[EventId(leaf)].schema_validated = TRUE
           /\ compressed_data[EventId(leaf)].parsed_data = ToJson(D)
           /\ compressed_data_changelog =
                 << [tree_id |-> leaf.tree_id, leaf_idx |-> leaf.leaf_idx, key |-> None,
                     data |-> ToJson(D), seq |-> leaf.seq, slot |-> leaf.slot] >>

C14_Witness ==
    /\ Len(records) = 2
    /\ Quiescent
    /\ IsTreeRecord(1)
    /\ IsLeafRecord(2, "Full")
    /\ LeafEventOf(2).stream_type.data = Character
    /\ LeafEventOf(2).seq = MaxSeq
    /\ LeafEventOf(2).slot = MaxEventSlot
    /\ records[2].status = "acked"
    /\ merkle_tree[LeafEventOf(1).tree_id].program = Some(OtherProgramId)
    /\ Len(compressed_data_changelog) = 1

\* The compressed_data table and the change log as the record before `id`
\* has left them (LedgerSpec handles one record at a time).
RowsBefore(id) == IF id = 1 THEN EmptyMap ELSE records[id - 1].after.compressed_data

ChangeLogBefore(id) == IF id = 1 THEN <<>> ELSE records[id - 1].changelog

\* The leaf row of the record's event is there before the record is handled,
\* and its parsed_data is an object with the patched key.
PatchesKnownKey(id) ==
    /\ IsLeafRecord(id, "PatchChunk")
    /\ EventId(LeafEventOf(id)) \in DOMAIN RowsBefore(id)
    /\ RowsBefore(id)[EventId(LeafEventOf(id))].parsed_data.j = "Object"
    /\ LeafEventOf(id).stream_type.key
          \in DOMAIN RowsBefore(id)[EventId(LeafEventOf(id))].parsed_data.fields

\* What a PatchChunk is to leave behind: the field set to data, slot_updated
\* set to slot, and one change-log row more, for the key.
PatchApplied(id) ==
    LET event == LeafEventOf(id)
        eid == EventId(event)
        old == RowsBefore(id)[eid]
        after == records[id].after.compressed_data
    IN  /\ eid \in DOMAIN after
        /\ after[eid].parsed_data =
              JObject(MapInsert(old.parsed_data.fields, event.stream_type.key,
                                ToJson(event.stream_type.data)))
        /\ after[eid].slot_updated = event.slot
        /\ records[id].changelog =
              Append(ChangeLogBefore(id),
                     [tree_id |-> event.tree_id, leaf_idx |-> event.leaf_idx,
                      key |-> Some(event.stream_type.key),
                      data |-> ToJson(event.stream_type.data),
                      seq |-> event.seq, slot |-> event.slot])

C16_UnknownKeyIgnored ==
    \A id \in DOMAIN records :
        ( /\ Finished(id)
          /\ IsLeafRecord(id, "PatchChunk")
          /\ EventId(LeafEventOf(id)) \in DOMAIN RowsBefore(id)
          /\ ~PatchesKnownKey(id) )
        => /\ records[id].logged = <<>>
           /\ records[id].result = "Ok"
           /\ EventId(LeafEventOf(id)) \in DOMAIN records[id].after.compressed_data
           /\ records[id].after.compressed_data[EventId(LeafEventOf(id))]
                 = RowsBefore(id)[EventId(LeafEventOf(id))]
           /\ records[id].changelog = ChangeLogBefore(id)

\* The store as the record before `id` has left it.
SnapshotBefore(id) ==
    IF id = 1
    THEN [compressed_data |-> EmptyMap, changelog |-> {}, character_history |-> {}]
    ELSE records[id - 1].after

\* C17: a PatchChunk or an Empty event for a (tree id, leaf index) that has
\* no compressed_data row makes the handler return StorageReadError and
\* leaves the store as it was: no leaf row is created and no change-log row
\* or character-history row is appended.
C17_MissingLeafSurfaces ==
    \A id \in DOMAIN records :
        ( /\ Finished(id)
          /\ IsLeafRecord(id, "PatchChunk") \/ IsLeafRecord(id, "Empty")
          /\ EventId(LeafEventOf(id)) \notin DOMAIN RowsBefore(id) )
        => /\ records[id].logged = << [error |-> NoOldData, event |-> LeafEventOf(id)] >>
           /\ records[id].writes = 0
           /\ records[id].after = SnapshotBefore(id)
           /\ records[id].changelog = ChangeLogBefore(id)

\* A Full, an Empty that deletes its row, and a PatchChunk that finds none.
C17_Witness ==
    /\ Len(records) = 3
    /\ IsLeafRecord(1, "Full")
    /\ IsLeafRecord(2, "Empty")
    /\ IsLeafRecord(3, "PatchChunk")
    /\ Finished(3)
    /\ records[1].logged = <<>>
    /\ records[2].logged = <<>>
    /\ records[3].logged # <<>>
    /\ compressed_data = EmptyMap
    /\ Len(compressed_data_changelog) = 1

(***************************************************************************)
(* FrameSpec: events for two leaves of one tree, on a store without a      *)
(* merkle_tree row, one record at a time.                                  *)
(***************************************************************************)
MaxFrameTxs == 4

FrameLeaves == {0, 1}

FrameEvents ==
    {[kind |-> "Leaf", slot |-> slot, tree_id |-> "T", leaf_idx |-> leaf_idx, seq |-> 1,
      stream_type |-> stream_type] :
        slot \in {1}, leaf_idx \in FrameLeaves,
        stream_type \in {[kind |-> "Full", data |-> Character],
                         [kind |-> "PatchChunk", key |-> "color", data |-> SString(<<"blue">>)],
                         [kind |-> "PatchChunk", key |-> "size", data |-> SString(<<"L">>)],
                         [kind |-> "Empty"]}}

FrameTxs == {NoopTx(event) : event \in FrameEvents}

FrameInit == IngestStart /\ TransformerIdle

FrameStart == StartTransactionFrom(1, FrameTxs, MaxFrameTxs)

FrameNext ==
    \/ FrameStart
    \/ \E w \in Workers : NextInstruction(w)
    \/ \E w \in Workers : FullFindTree(w)
    \/ \E w \in Workers : FullUpsert(w)
    \/ \E w \in Workers : HandleChangeLog(w)
    \/ \E w \in Workers : EmptyFind(w)
    \/ \E w \in Workers : EmptyDelete(w)
    \/ \E w \in Workers : PatchFindLeaf(w)
    \/ \E w \in Workers : PatchFindTree(w)
    \/ \E w \in Workers : PatchUpdate(w)

FrameSpec == FrameInit /\ [][FrameNext]_vars

\* C18: an Empty event on an existing leaf deletes the compressed_data row
\* of that (tree id, leaf index) and appends no change-log row; the other
\* leaf rows and the change-log rows that were there are unchanged.
C18_EmptyDeletesRow ==
    \A id \in DOMAIN records :
        ( /\ Finished(id)
          /\ IsLeafRecord(id, "Empty")
          /\ EventId(LeafEventOf(id)) \in DOMAIN RowsBefore(id) )
        => /\ records[id].logged = <<>>
           /\ records[id].after.compressed_data =
                 [k \in (DOMAIN RowsBefore(id)) \ {EventId(LeafEventOf(id))}
                     |-> RowsBefore(id)[k]]
           /\ records[id].changelog = ChangeLogBefore(id)

\* An Empty for one of two leaves that both have a row.
C18_Witness ==
    \E id \in DOMAIN records :
        /\ Finished(id)
        /\ IsLeafRecord(id, "Empty")
        /\ Cardinality(DOMAIN RowsBefore(id)) = 2
        /\ Cardinality(DOMAIN records[id].after.compressed_data) = 1
        /\ Len(records[id].changelog) >= 2

\* C19: a Full event for a tree that has no merkle_tree row, or whose
\* merkle_tree row has no owning program id, is still persisted: no error is
\* returned, the leaf row is upserted with schema_validated = false, and a
\* change-log row is emitted.
C19_FullWithoutProgramPersists ==
    \A id \in DOMAIN records :
        ( /\ Finished(id)
          /\ IsLeafRecord(id, "Full")
          /\ \/ LeafEventOf(id).tree_id \notin DOMAIN merkle_tree
             \/ IsNone(merkle_tree[LeafEventOf(id).tree_id].program) )
        => /\ records[id].logged = <<>>
           /\ EventId(LeafEventOf(id)) \in DOMAIN records[id].after.compressed_data
           /\ records[id].after.compressed_data[EventId(LeafEventOf(id))].schema_validated = FALSE
           /\ records[id].after.compressed_data[EventId(LeafEventOf(id))].parsed_data
                 = ToJson(LeafEventOf(id).stream_type.data)
           /\ records[id].changelog = Append(ChangeLogBefore(id), ChangeLogRow(LeafEventOf(id)))

(***************************************************************************)
(* TreeSpec: TreeSchemaValue events for two trees, with two schemas, one   *)
(* record at a time, on an empty store.                                    *)
(***************************************************************************)
MaxTreeTxs == 4

TreeSpecEvents ==
    {[kind |-> "TreeSchemaValue", tree_id |-> tree_id, schema |-> schema,
      program_id |-> program_id] :
        tree_id \in {"T", "U"}, schema \in {"CharacterSchema", "ItemSchema"},
        program_id \in {CharacterManagerId, OtherProgramId}}

TreeTxs == {NoopTx(event) : event \in TreeSpecEvents}

TreeInit == IngestStart /\ TransformerIdle

TreeStart == StartTransactionFrom(1, TreeTxs, MaxTreeTxs)

TreeNext ==
    \/ TreeStart
    \/ \E w \in Workers : NextInstruction(w)
    \/ \E w \in Workers : HandleTree(w)

TreeSpec == TreeInit /\ [][TreeNext]_vars

\* The records that carry a TreeSchemaValue for the tree, in delivery order.
TreeRecordsOf(tree_id) ==
    {id \in DOMAIN records : IsTreeRecord(id) /\ LeafEventOf(id).tree_id = tree_id}

LastTreeRecord(tree_id) ==
    CHOOSE id \in TreeRecordsOf(tree_id) : \A other \in TreeRecordsOf(tree_id) : other <= id

SeenTrees == {LeafEventOf(id).tree_id : id \in {i \in DOMAIN records : IsTreeRecord(i)}}

\* C20: after any sequence of TreeSchemaValue events there is one merkle_tree
\* row for each tree id seen and none for another, the row's data_schema is
\* the schema of the TreeSchemaValue applied last for the tree, and no step
\* deletes a merkle_tree row.
C20_TreeUpsert ==
    /\ [](Quiescent =>
            /\ DOMAIN merkle_tree = SeenTrees
            /\ \A tree_id \in SeenTrees :
                  /\ merkle_tree[tree_id].id = tree_id
                  /\ Unborsh(merkle_tree[tree_id].data_schema)
                        = LeafEventOf(LastTreeRecord(tree_id)).schema)
    /\ [][\A tree_id \in DOMAIN merkle_tree : tree_id \in DOMAIN merkle_tree']_vars

\* Two trees seen, one of them given a schema and then another.
C20_Witness ==
    /\ Quiescent
    /\ Len(records) >= 3
    /\ DOMAIN merkle_tree = {"T", "U"}
    /\ LeafEventOf(1).tree_id = LeafEventOf(2).tree_id
    /\ LeafEventOf(1).schema # LeafEventOf(2).schema
    /\ LeafEventOf(3).tree_id # LeafEventOf(1).tree_id

(***************************************************************************)
(* HistorySpec: a character-manager tree; a Full that creates a character  *)
(* with some used_by, then up to two used_by patches of that character at  *)
(* one slot, handled by futures that may run concurrently.                 *)
(***************************************************************************)
MaxHistoryTxs == 3

UsedByEjected == SEnum("Ejected", SNull)

UsedByValues == {UsedByEjected, UsedByNone, UsedByStaking, UsedByMission}

CharacterUsedBy(used_by) ==
    SObject(("used_by" :> used_by) @@ ("color" :> SString(<<"red">>)))

HistoryFulls ==
    {NoopTx([kind |-> "Leaf", slot |-> 1, tree_id |-> "T", leaf_idx |-> 0, seq |-> 1,
             stream_type |-> [kind |-> "Full", data |-> CharacterUsedBy(u)]]) :
        u \in UsedByValues}

HistoryPatches ==
    {NoopTx([kind |-> "Leaf", slot |-> 2, tree_id |-> "T", leaf_idx |-> 0, seq |-> 2,
             stream_type |-> [kind |-> "PatchChunk", key |-> "used_by", data |-> u]]) :
        u \in UsedByValues}

\* What the stream delivers next: the Full first, the patches once it is done.
HistoryDeliverable ==
    IF records = <<>> THEN HistoryFulls
    ELSE IF Finished(1) THEN HistoryPatches ELSE {}

HistoryInit ==
    /\ IngestStart
    /\ asset = EmptyMap
    /\ token_accounts = EmptyMap
    /\ dao_accounts = EmptyMap
    /\ OpsIdle
    /\ merkle_tree = MapInsert(EmptyMap, "T",
                               [id |-> "T", data_schema |-> Borsh("CharacterSchema"),
                                program |-> Some(CharacterManagerId)])
    /\ compressed_data = EmptyMap
    /\ compressed_data_changelog = <<>>
    /\ character_history = <<>>
    /\ workers = [w \in Workers |-> IdleWorker]
    /\ records = <<>>

HistoryStart == \E w \in Workers : StartTransactionFrom(w, HistoryDeliverable, MaxHistoryTxs)

HistoryNext ==
    \/ HistoryStart
    \/ \E w \in Workers : NextInstruction(w)
    \/ \E w \in Workers : FullFindTree(w)
    \/ \E w \in Workers : FullUpsert(w)
    \/ \E w \in Workers : NceFind(w)
    \/ \E w \in Workers : NceInsert(w)
    \/ \E w \in Workers : HandleChangeLog(w)
    \/ \E w \in Workers : PatchFindLeaf(w)
    \/ \E w \in Workers : PatchFindTree(w)
    \/ \E w \in Workers : LchFindHistory(w)
    \/ \E w \in Workers : LchFindAccount(w)
    \/ \E w \in Workers : PatchUpdate(w)

HistorySpec == HistoryInit /\ [][HistoryNext]_vars

\* The table of transitions: (pre tag, new tag, event).
TransitionTable ==
    { <<"Ejected", "None", "Wrapped">>,
      <<"None", "Staking", "Staked">>,
      <<"None", "Mission", "MissionParticipation">>,
      <<"Staking", "None", "UnStaked">>,
      <<"Staking", "Staking", "ClaimedStakingReward">>,
      <<"Mission", "None", "RecallFromMission">>,
      <<"Mission", "Mission", "ClaimedMissionReward">> }
    \cup {<<pre, "Ejected", "UnWrapped">> : pre \in {"Ejected", "None", "Staking", "Mission"}}

TableEvents(pre, new) == {t[3] : t \in {u \in TransitionTable : u[1] = pre /\ u[2] = new}}

\* The history rows other than the NewCharacter row of the Full.
TransitionRows == {i \in DOMAIN character_history : character_history[i].event # "NewCharacter"}

\* C21: for every pair (pre tag, new tag) of Ejected, None, Staking and
\* Mission, the used_by patch of a character from pre to new logs the event
\* the table gives for the pair and no other, and for a pair that is not in
\* the table it inserts no history row and returns success.
C21_TransitionTable ==
    ( /\ Len(records) = 2
      /\ Quiescent
      /\ Finished(2)
      /\ IsLeafRecord(1, "Full")
      /\ IsLeafRecord(2, "PatchChunk")
      /\ records[1].logged = <<>> )
    => LET pre == LeafEventOf(1).stream_type.data.fields["used_by"].kind
           new == LeafEventOf(2).stream_type.data.kind
       IN  /\ \A i \in TransitionRows : character_history[i].event \in TableEvents(pre, new)
           /\ records[2].logged = <<>> =>
                 Cardinality(TransitionRows) = Cardinality(TableEvents(pre, new))
           /\ TableEvents(pre, new) = {} => records[2].logged = <<>>

\* A character recalled from its mission, the one transition with a path of
\* its own.
C21_Witness ==
    /\ Len(records) = 2
    /\ Quiescent
    /\ Finished(2)
    /\ records[2].logged = <<>>
    /\ LeafEventOf(1).stream_type.data.fields["used_by"].kind = "Mission"
    /\ LeafEventOf(2).stream_type.data.kind = "None"
    /\ \E i \in TransitionRows : character_history[i].event = "RecallFromMission"

\* C22: character_history never holds two rows with the same
\* (character id, event, slot), replays and concurrently handled events
\* included.
C22_HistoryUnique ==
    \A i, j \in DOMAIN character_history :
        ( /\ character_history[i].character_id = character_history[j].character_id
          /\ character_history[i].event = character_history[j].event
          /\ character_history[i].slot_updated = character_history[j].slot_updated )
        => i = j

(***************************************************************************)
(* RewardSpec: calculate_reward on one event reward and one reward range,  *)
(* over values of the whole width of the arithmetic.                       *)
(***************************************************************************)
RewardInputs == {0, 1, 10, 20, 50, 100, 200, RewardWord - 1}

\* Whether max - min, delta * range or min + quotient leaves the width.
RewardOverflows(min, max, delta) ==
    \/ max < min
    \/ delta * (max - min) >= RewardWord
    \/ min + ((delta * (max - min)) \div 100) >= RewardWord

EventReward(delta) ==
    JObject(("delta" :> JNumber(delta)) @@ ("reward_idx" :> JNumber(0))
            @@ ("collected" :> JBool(TRUE)))

RewardRange(min, max) ==
    JObject(("min" :> JNumber(min)) @@ ("max" :> JNumber(max))
            @@ ("reward_type" :> JString(<<"xp">>)))

RewardInit ==
    /\ IngestStart
    /\ asset = EmptyMap
    /\ token_accounts = EmptyMap
    /\ dao_accounts = EmptyMap
    /\ OpsIdle
    /\ merkle_tree = EmptyMap
    /\ compressed_data = EmptyMap
    /\ compressed_data_changelog = <<>>
    /\ character_history = <<>>
    /\ records = <<>>
    /\ \E min, max, delta \in RewardInputs :
          workers = [w \in Workers |->
                        IF w = 1
                        THEN [IdleWorker EXCEPT !.pc = "calculate_reward",
                                                !.l = [min |-> min, max |-> max, delta |-> delta]]
                        ELSE IdleWorker]

\* The call of calculate_reward: the wrapped value, or, where the arithmetic
\* leaves the width, the panic of a build with overflow checks.
CalculateReward(w) ==
    LET ws == workers[w]
        new_reward == calculate_reward(EventReward(ws.l.delta),
                                       <<RewardRange(ws.l.min, ws.l.max)>>)
        outcomes == {Some(new_reward.fields["reward"].v)}
                    \cup (IF RewardOverflows(ws.l.min, ws.l.max, ws.l.delta)
                          THEN {None} ELSE {})
    IN  /\ ws.pc = "calculate_reward"
        /\ \E outcome \in outcomes :
              workers' = [workers EXCEPT ![w] =
                             [ws EXCEPT !.pc = IF IsNone(outcome) THEN "panicked" ELSE "rewarded",
                                        !.l = [result |-> outcome] @@ ws.l]]
        /\ UNCHANGED <<merkle_tree, compressed_data, compressed_data_changelog,
                       character_history, records>>
        /\ UNCHANGED <<ingestVars, assetVars>>

RewardNext == \E w \in Workers : CalculateReward(w)

RewardSpec == RewardInit /\ [][RewardNext]_vars

\* C23: for all min, max and delta of the width, the reward is
\* min + ((delta * (max - min)) / 100) in integer division, computed with no
\* overflow and no underflow, and lies in [min, max] when min <= max and
\* delta <= 100.
C23_RewardExact ==
    \A w \in Workers :
        workers[w].pc \in {"rewarded", "panicked"} =>
            LET l == workers[w].l
            IN  /\ ~IsNone(l.result)
                /\ l.result.some = l.min + ((l.delta * (l.max - l.min)) \div 100)
                /\ (l.min <= l.max /\ l.delta <= 100) =>
                      (l.min <= l.result.some /\ l.result.some <= l.max)

\* The part of C23 that holds: inside the width the value is the formula's
\* and lies in the range.
RewardInRangeWithoutOverflow ==
    \A w \in Workers :
        workers[w].pc \in {"rewarded", "panicked"} =>
            LET l == workers[w].l
            IN  ~RewardOverflows(l.min, l.max, l.delta) =>
                   /\ ~IsNone(l.result)
                   /\ l.result.some = l.min + ((l.delta * (l.max - l.min)) \div 100)
                   /\ (l.delta <= 100) => (l.min <= l.result.some /\ l.result.some <= l.max)

(***************************************************************************)
(* TokenSpec: token-account updates of one mint, handled one after another *)
(* against an asset row of any owner type, supply and stored slot.         *)
(***************************************************************************)
MaxTokenSlot == 3

TokenOwners == {"O1", "O2"}

TokenDelegates == {None, Some("D")}

\* The updates of the token account "A" of the mint "m".
TokenAccounts ==
    [pubkey : {"A"}, mint : {"m"}, owner : TokenOwners, delegate : TokenDelegates,
     frozen : BOOLEAN, amount : 0..1, slot : 1..MaxTokenSlot]

\* The asset rows the other handlers may have left for the mint.
InitialAssets ==
    {EmptyMap} \cup
    {MapInsert(EmptyMap, "m", row) :
        row \in [id : {"m"}, owner_type : {"single", "token"}, supply : 1..2,
                 owner : {None, Some("O1")}, delegate : {None}, frozen : {FALSE},
                 slot_updated : {None, Some(2)}]}

\* upsert_owner_for_token_account: the row of the token account.
upsert_owner_for_token_account(ta) ==
    MapInsert(token_accounts, ta.pubkey,
              [mint |-> ta.mint, owner |-> ta.owner, delegate |-> ta.delegate,
               frozen |-> ta.frozen, amount |-> ta.amount, slot_updated |-> ta.slot])

\* find_by_id(mint) without the condition on the stored slot.
FindAssetUpdate_AnySlot(mint, slot) ==
    LET found == Lookup(asset, mint)
    IN  IF ~IsNone(found) /\ found.some.owner_type = "single" THEN found ELSE None

\* find_by_id(mint) filtered by owner_type = "single" and
\* slot_updated IS NULL OR slot_updated <= slot.
FindAssetUpdate(mint, slot) ==
    LET found == Lookup(asset, mint)
    IN  IF /\ ~IsNone(found)
           /\ found.some.owner_type = "single"
           /\ (IsNone(found.some.slot_updated) \/ found.some.slot_updated.some <= slot)
        THEN found
        ELSE None

\* upsert_assets_token_account_columns: the owner, frozen, delegate and slot
\* columns of the mint's row.
upsert_assets_token_account_columns(columns) ==
    IF columns.mint \in DOMAIN asset
    THEN [asset EXCEPT ![columns.mint] =
             [@ EXCEPT !.owner = columns.owner, !.frozen = columns.frozen,
                       !.delegate = columns.delegate,
                       !.slot_updated = columns.slot_updated_token_account]]
    ELSE asset

\* A token-account update reaches a future.
TokenStart(w) ==
    /\ workers[w].pc = "idle"
    /\ \E ta \in TokenAccounts :
          workers' = [workers EXCEPT ![w] =
                         [IdleWorker EXCEPT !.pc = "token_account", !.l = [ta |-> ta]]]
    /\ UNCHANGED <<merkle_tree, compressed_data, compressed_data_changelog,
                   character_history, records>>
    /\ UNCHANGED <<ingestVars, assetVars>>

\* handle_token2022_token_account, from the upsert of the token account to
\* the commit.
HandleToken2022TokenAccount(w) ==
    LET ta == workers[w].l.ta
        asset_update == FindAssetUpdate(ta.mint, ta.slot)
        save_required ==
            /\ ~IsNone(asset_update)
            /\ asset_update.some.supply = 1
            /\ ta.amount > 0
            /\ \/ Some(ta.owner) # asset_update.some.owner
               \/ ta.delegate # asset_update.some.delegate
               \/ ta.frozen # asset_update.some.frozen
    IN  /\ workers[w].pc = "token_account"
        /\ token_accounts' = upsert_owner_for_token_account(ta)
        /\ asset' = IF save_required
                    THEN upsert_assets_token_account_columns(
                             [mint |-> ta.mint, owner |-> Some(ta.owner), frozen |-> ta.frozen,
                              delegate |-> ta.delegate,
                              slot_updated_token_account |-> Some(ta.slot)])
                    ELSE asset
        /\ workers' = [workers EXCEPT ![w] = IdleWorker]
        /\ UNCHANGED <<merkle_tree, compressed_data, compressed_data_changelog,
                       character_history, records, dao_accounts, opsVars>>
        /\ UNCHANGED ingestVars

TokenInit ==
    /\ IngestStart
    /\ merkle_tree = EmptyMap
    /\ compressed_data = EmptyMap
    /\ compressed_data_changelog = <<>>
    /\ character_history = <<>>
    /\ workers = [w \in Workers |-> IdleWorker]
    /\ records = <<>>
    /\ asset \in InitialAssets
    /\ token_accounts = EmptyMap
    /\ dao_accounts = EmptyMap
    /\ OpsIdle

\* One future: the updates are handled one after another.
TokenNext ==
    \/ TokenStart(1)
    \/ HandleToken2022TokenAccount(1)

TokenSpec == TokenInit /\ [][TokenNext]_vars

\* The update some future is about to apply meets the three conditions on the
\* stored row of its mint.
MayChangeAsset(ta) ==
    /\ ta.mint \in DOMAIN asset
    /\ asset[ta.mint].supply = 1
    /\ ta.amount > 0
    /\ (IsNone(asset[ta.mint].slot_updated) \/ ta.slot >= asset[ta.mint].slot_updated.some)

SlotOf(table, mint) ==
    IF mint \in DOMAIN table /\ ~IsNone(table[mint].slot_updated)
    THEN table[mint].slot_updated.some
    ELSE 0

\* C24: a token-account update changes the asset row only when the asset's
\* supply is 1, the amount is greater than 0 and the incoming slot is at least
\* the stored slot_updated or the stored slot is unset; in every other case
\* the row stays as it is, and no step decreases an asset's slot_updated.
C24_AssetGuard ==
    [][ /\ asset' # asset =>
             \E w \in Workers :
                 /\ workers[w].pc = "token_account"
                 /\ workers'[w].pc = "idle"
                 /\ MayChangeAsset(workers[w].l.ta)
        /\ DOMAIN asset' = DOMAIN asset
        /\ \A mint \in DOMAIN asset :
              /\ SlotOf(asset', mint) >= SlotOf(asset, mint)
              /\ ~IsNone(asset[mint].slot_updated) => ~IsNone(asset'[mint].slot_updated) ]_vars

\* An NFT whose owner moved to O2 at slot 3.
C24_Witness ==
    /\ "m" \in DOMAIN asset
    /\ asset["m"].supply = 1
    /\ asset["m"].owner = Some("O2")
    /\ asset["m"].slot_updated = Some(3)
    /\ "A" \in DOMAIN token_accounts

(***************************************************************************)
(* Claims about the pipeline of the ingest loop.                           *)
(***************************************************************************)
Unflushed == pipe_accounts + pipe_transactions

\* The step spawned a flush task for the pipeline and the one record the
\* step added to it, and left an empty pipeline behind.
FlushedWithNewRecord ==
    /\ Len(tasks') = Len(tasks) + 1
    /\ LET task == tasks'[Len(tasks')]
       IN  /\ SubSeq(task.cmds, 1, Len(pipe)) = pipe
           /\ task.accounts >= pipe_accounts
           /\ task.transactions >= pipe_transactions
           /\ task.accounts + task.transactions = Unflushed + 1
           /\ Len(task.cmds) = Len(pipe) + (IF task.accounts > pipe_accounts THEN 1 ELSE 2)
           /\ ~task.done
    /\ pipe' = <<>>
    /\ pipe_accounts' = 0
    /\ pipe_transactions' = 0

\* C25: at the start of every iteration of the management loop
\* pipe_accounts + pipe_transactions is below pipeline_max_size: the update
\* that brings the batch to pipeline_max_size hands the whole batch to a flush
\* task and resets both counters to 0.
C25_BatchBelowMax ==
    /\ [](Unflushed < pipeline_max_size)
    /\ [][ (xadd_log' # xadd_log /\ Unflushed + 1 >= pipeline_max_size) =>
              FlushedWithNewRecord ]_vars

\* A full batch in a flush task, nothing left in the pipeline.
C25_Witness ==
    /\ \E i \in 1..Len(tasks) : tasks[i].accounts + tasks[i].transactions = pipeline_max_size
    /\ pipe = <<>>
    /\ Unflushed = 0

(***************************************************************************)
(* RunSpec: `run` from its loop to its return.  The loop ends on a         *)
(* shutdown signal or on the end of the metrics task; after it `run` joins *)
(* the flush tasks unless a second signal arrives first.  Updates arrive   *)
(* while the idle deadline they start lies within the modelled time.       *)
(***************************************************************************)
MaxRunMsgs == 3

RunRecv ==
    /\ now + pipeline_max_idle <= MaxTime
    /\ RecvUpdateUpTo(MaxRunMsgs)

\* The loop is left with the result Ok ("shutdown") or Err ("failed").
LoopBreak(to) ==
    /\ AtSelect
    /\ phase' = to
    /\ UNCHANGED <<seen_update_events, pending_update_events, pipe, pipe_accounts,
                   pipe_transactions, tasks, broker, now, next_tick, deadline, received,
                   arrivals, deliveries, evicted, xadd_log, xadd_status, endpoints,
                   channel, at_join>>
    /\ UNCHANGED <<transformerVars, assetVars>>

\* Some(signal) = shutdown.next() => break Ok(())
Shutdown == LoopBreak("shutdown")

\* result = &mut jh_metrics_xlen => break Err(error)
MetricsEnd == LoopBreak("failed")

\* while let Some(result) = tasks.join_next().await
JoinRest ==
    /\ phase \in {"shutdown", "failed"}
    /\ \E i \in 1..Len(tasks) :
          /\ tasks[i].done
          /\ tasks' = RemoveAt(tasks, i)
    /\ UNCHANGED <<seen_update_events, pending_update_events, pipe, pipe_accounts,
                   pipe_transactions, broker, now, next_tick, deadline, received, arrivals,
                   deliveries, evicted, xadd_log, xadd_status, phase,
                   endpoints, channel, at_join>>
    /\ UNCHANGED <<transformerVars, assetVars>>

\* The join loop has ended: `run` returns the result of its loop.
Return ==
    /\ phase \in {"shutdown", "failed"}
    /\ tasks = <<>>
    /\ phase' = IF phase = "shutdown" THEN "returned" ELSE "bailed"
    /\ UNCHANGED <<seen_update_events, pending_update_events, pipe, pipe_accounts,
                   pipe_transactions, tasks, broker, now, next_tick, deadline, received,
                   arrivals, deliveries, evicted, xadd_log, xadd_status, endpoints,
                   channel, at_join>>
    /\ UNCHANGED <<transformerVars, assetVars>>

\* Some(signal) = shutdown.next() => bail!: the JoinSet is dropped with the
\* tasks that are left in it.
ForceShutdown ==
    /\ phase \in {"shutdown", "failed"}
    /\ phase' = "bailed"
    /\ tasks' = <<>>
    /\ UNCHANGED <<seen_update_events, pending_update_events, pipe, pipe_accounts,
                   pipe_transactions, broker, now, next_tick, deadline, received, arrivals,
                   deliveries, evicted, xadd_log, xadd_status, endpoints,
                   channel, at_join>>
    /\ UNCHANGED <<transformerVars, assetVars>>

RunNext ==
    \/ RunRecv
    \/ Sweep
    \/ Deadline
    \/ FlushRun
    \/ JoinNext
    \/ Tick
    \/ Shutdown
    \/ MetricsEnd
    \/ JoinRest
    \/ Return
    \/ ForceShutdown

RunSpec == IngestInit /\ [][RunNext]_vars

\* The arms of the select that are ready are taken, time passes, and the
\* spawned tasks and the joins run.
RunFair ==
    /\ WF_vars(Deadline)
    /\ WF_vars(Sweep)
    /\ WF_vars(Tick)
    /\ WF_vars(FlushRun)
    /\ WF_vars(JoinNext)
    /\ WF_vars(JoinRest)
    /\ WF_vars(Return)

RunLive == RunSpec /\ RunFair

\* The step took the deadline arm and spawned a flush of the whole pipeline.
IdleFlushed ==
    /\ Len(tasks') = Len(tasks) + 1
    /\ tasks'[Len(tasks')] = [cmds |-> pipe, accounts |-> pipe_accounts,
                              transactions |-> pipe_transactions, done |-> FALSE]
    /\ pipe' = <<>>
    /\ pipe_accounts' = 0
    /\ pipe_transactions' = 0
    /\ deadline' = now + pipeline_max_idle

\* C26: every record added to the pipeline is eventually handed to a flush,
\* with no further update needed: when pipeline_max_idle has elapsed with at
\* least one unflushed record the deadline arm flushes the batch, resets the
\* counters and re-arms the deadline, and no flush is spawned for an empty
\* pipeline.
C26_IdleFlush ==
    /\ (Unflushed > 0) ~> (Unflushed = 0)
    /\ [][ (Len(tasks') > Len(tasks) /\ xadd_log' = xadd_log) =>
              (now >= deadline /\ Unflushed > 0 /\ IdleFlushed) ]_vars
    /\ [](\A i \in 1..Len(tasks) : tasks[i].accounts + tasks[i].transactions > 0)

\* The part of C26 that holds: a record is handed to a flush unless the loop
\* is left first.
IdleFlushWhileLooping ==
    /\ (Unflushed > 0) ~> (Unflushed = 0 \/ phase # "loop")
    /\ [][ (Len(tasks') > Len(tasks) /\ xadd_log' = xadd_log) =>
              (now >= deadline /\ Unflushed > 0 /\ IdleFlushed) ]_vars
    /\ [](\A i \in 1..Len(tasks) : tasks[i].accounts + tasks[i].transactions > 0)

\* C27: after the shutdown signal no update is accepted, and when `run` has
\* returned every record that was in the unflushed pipeline has been handed
\* to a last flush.
C27_LastFlush ==
    /\ [](phase = "returned" => (Unflushed = 0 /\ pipe = <<>>))
    /\ [][phase # "loop" => received' = received]_vars

\* How many records of the stream were put into a pipeline so far.
RECURSIVE IssuedTo(_, _)
IssuedTo(stream, cmds) ==
    IF cmds = {} THEN 0
    ELSE LET cmd == CHOOSE c \in cmds : TRUE
         IN  (IF cmd.stream = stream THEN xadd_log[cmd] ELSE 0) + IssuedTo(stream, cmds \ {cmd})

\* The records of the flush tasks that have not run yet.
RECURSIVE InFlight(_, _)
InFlight(field, ts) ==
    IF ts = <<>> THEN 0
    ELSE (IF Head(ts).done THEN 0 ELSE Head(ts)[field]) + InFlight(field, Tail(ts))

\* C28: a batch is submitted once, whatever the outcome of its flush: each
\* record that was put into a pipeline is in the pipeline, in a flush task
\* that has not run, or counted once by the counters of its stream, under ok
\* if its batch was appended and under err if its flush failed, and the
\* streams hold the batches counted under ok and nothing else.
C28_NoResubmission ==
    /\ xadd_status["ACCOUNTS"].ok + xadd_status["ACCOUNTS"].err
          + InFlight("accounts", tasks) + pipe_accounts
       = IssuedTo("ACCOUNTS", DOMAIN xadd_log)
    /\ xadd_status["TRANSACTIONS"].ok + xadd_status["TRANSACTIONS"].err
          + InFlight("transactions", tasks) + pipe_transactions
       = IssuedTo("TRANSACTIONS", DOMAIN xadd_log)
    /\ Len(broker["ACCOUNTS"]) = xadd_status["ACCOUNTS"].ok
    /\ Len(broker["TRANSACTIONS"]) = xadd_status["TRANSACTIONS"].ok
    /\ Len(broker["TXN_CACHE"]) = xadd_status["TRANSACTIONS"].ok

\* A flush of a full batch has failed and a later one has succeeded.
C28_Witness ==
    /\ xadd_status["ACCOUNTS"].err + xadd_status["TRANSACTIONS"].err = pipeline_max_size
    /\ xadd_status["ACCOUNTS"].ok + xadd_status["TRANSACTIONS"].ok > 0
    /\ \A i \in 1..Len(tasks) : tasks[i].done

(***************************************************************************)
(* EndpointSpec: the endpoint tasks, the channel and the loop that reads   *)
(* it.  An attempt of try_streaming_grpc_loop fails to subscribe, or       *)
(* subscribes, forwards updates and ends when its stream ends.             *)
(***************************************************************************)
MaxEndpointMsgs == 2

geyser_update_message_buffer_size == 1

EndpointStart == [retry_count |-> 0, pc |-> "connect", attempts |-> 0, sent |-> 0]

TotalSent == endpoints[0].sent + endpoints[1].sent

\* The loop condition with one more turn.
WhileRetrying_Eleven(retry_count) == retry_count < 11

\* while retry_count < 10
WhileRetrying(retry_count) == retry_count < 10

\* retry_count += 1 and the loop condition: the task goes on to its next
\* attempt or ends.
EndAttempt(ep) ==
    [ep EXCEPT !.retry_count = @ + 1,
               !.pc = IF WhileRetrying(ep.retry_count + 1) THEN "connect" ELSE "done"]

EndpointStep(e, ep) ==
    /\ endpoints' = [endpoints EXCEPT ![e] = ep]
    /\ UNCHANGED <<seen_update_events, pending_update_events, pipe, pipe_accounts,
                   pipe_transactions, tasks, broker, now, next_tick, deadline, received,
                   arrivals, deliveries, evicted, xadd_log, xadd_status, phase,
                   at_join>>
    /\ UNCHANGED <<transformerVars, assetVars>>

\* try_streaming_grpc_loop is called: the subscription is made, or the
\* connect, the ping, the health check or the subscribe returns an error.
Subscribe(e) ==
    /\ endpoints[e].pc = "connect"
    /\ WhileRetrying(endpoints[e].retry_count)
    /\ \E subscribed \in BOOLEAN :
          LET tried == [endpoints[e] EXCEPT !.attempts = @ + 1]
          IN  EndpointStep(e, IF subscribed THEN [tried EXCEPT !.pc = "stream"]
                                 ELSE EndAttempt(tried))
    /\ UNCHANGED channel

\* Ok(msg) with an update: tx.send, which waits for room in the channel and
\* panics when the receiver is gone.
StreamSend(e) ==
    /\ endpoints[e].pc = "stream"
    /\ TotalSent < MaxEndpointMsgs
    /\ IF phase \in {"returned", "bailed"}
       THEN /\ EndpointStep(e, [endpoints[e] EXCEPT !.pc = "panicked"])
            /\ UNCHANGED channel
       ELSE /\ Len(channel) < geyser_update_message_buffer_size
            /\ \E update \in Updates :
                  channel' = Append(channel, [endpoint_index |-> e, update |-> update])
            /\ EndpointStep(e, [endpoints[e] EXCEPT !.sent = @ + 1])

\* stream.next() returns None: the attempt ends with Ok(()).
StreamEnd(e) ==
    /\ endpoints[e].pc = "stream"
    /\ EndpointStep(e, EndAttempt(endpoints[e]))
    /\ UNCHANGED channel

\* Some(GrpcStream { endpoint_index, update }) = rx.next()
RecvFromChannel ==
    /\ AtSelect
    /\ channel # <<>>
    /\ HandleUpdate(Head(channel).endpoint_index, Head(channel).update)
    /\ channel' = Tail(channel)
    /\ at_join' = IF xadd_log' = xadd_log THEN FALSE ELSE TasksFull(tasks')
    /\ UNCHANGED <<broker, now, next_tick, xadd_status, phase, endpoints>>
    /\ UNCHANGED <<transformerVars, assetVars>>

EndpointInit ==
    /\ seen_update_events = <<>>
    /\ pending_update_events = EmptyMap
    /\ pipe = <<>>
    /\ pipe_accounts = 0
    /\ pipe_transactions = 0
    /\ tasks = <<>>
    /\ broker = [s \in StreamNames |-> <<>>]
    /\ now = 0
    /\ next_tick = 0
    /\ deadline = pipeline_max_idle
    /\ received = 0
    /\ arrivals = EmptyMap
    /\ deliveries = EmptyMap
    /\ evicted = {}
    /\ xadd_log = EmptyMap
    /\ xadd_status = [s \in {"ACCOUNTS", "TRANSACTIONS"} |-> [ok |-> 0, err |-> 0]]
    /\ phase = "loop"
    /\ endpoints = [e \in Endpoints |-> EndpointStart]
    /\ channel = <<>>
    /\ at_join = FALSE
    /\ TransformerIdle

\* With MaxEndpointMsgs updates the JoinSet never holds max_xadd_in_process
\* tasks, so the join loop has nothing to wait for.
EndpointNext ==
    \/ \E e \in Endpoints : Subscribe(e)
    \/ \E e \in Endpoints : StreamSend(e)
    \/ \E e \in Endpoints : StreamEnd(e)
    \/ RecvFromChannel
    \/ Deadline
    \/ FlushRun
    \/ Tick

EndpointSpec == EndpointInit /\ [][EndpointNext]_vars

\* C29: the subscription of an endpoint is attempted at most 10 times; when
\* its 10th attempt has ended the task is done, changes no more and sends
\* nothing more, and neither the tasks of the other endpoints nor the loop
\* are stopped by it.
C29_TenAttempts ==
    /\ [](\A e \in Endpoints :
             /\ endpoints[e].attempts <= 10
             /\ endpoints[e].pc = "done" <=>
                   (endpoints[e].retry_count = 10 /\ endpoints[e].attempts = 10))
    /\ [][\A e \in Endpoints :
             endpoints[e].pc = "done" =>
                 /\ endpoints'[e] = endpoints[e]
                 /\ Len(channel') > Len(channel) =>
                       channel'[Len(channel')].endpoint_index # e]_vars
    /\ [](\A e, other \in Endpoints :
             (endpoints[e].pc = "done" /\ other # e) =>
                 /\ (endpoints[other].pc = "connect") => ENABLED Subscribe(other)
                 /\ (endpoints[other].pc = "stream") => ENABLED StreamEnd(other)
                 /\ (AtSelect /\ channel # <<>>) => ENABLED RecvFromChannel
                 /\ phase = "loop")

\* Endpoint 0 is done after ten attempts while endpoint 1 streams and the
\* loop has taken an update from it.
C29_Witness ==
    /\ endpoints[0].pc = "done"
    /\ endpoints[0].attempts = 10
    /\ endpoints[0].sent = 0
    /\ endpoints[1].pc = "stream"
    /\ endpoints[1].sent > 0
    /\ received > 0

\* C30: a transaction update whose meta is missing or reports an execution
\* error, and an update that is neither an account nor a transaction, changes
\* nothing: the dedup cache, the pending map, the pipeline and both counters
\* stay as they are.
C30_DroppedChangesNothing ==
    [][ ( /\ Len(channel') < Len(channel)
          /\ LET update == Head(channel).update
             IN  \/ update.kind = "Transaction" /\ update.status \in {"err", "no_meta", "no_txn"}
                 \/ update.kind \notin {"Account", "Transaction"} )
        => UNCHANGED <<seen_update_events, pending_update_events, pipe, pipe_accounts,
                       pipe_transactions, tasks, deadline>> ]_vars

\* The loop has taken more updates from the channel than passed its filter,
\* with a record in the pipeline.
C30_Witness ==
    /\ channel = <<>>
    /\ TotalSent > received
    /\ received > 0
    /\ pipe # <<>>

(***************************************************************************)
(* Claims about the dedup cache.                                           *)
(***************************************************************************)
\* The fingerprints the step removes from the cache.
EvictedNow == LruKeys(seen_update_events) \ LruKeys(seen_update_events')

CacheEntry(key) == seen_update_events[LruIndex(seen_update_events, key)]

CacheBounded == Len(seen_update_events) <= solana_seen_event_cache_max_size

\* C31 as stated: the cache never holds more than
\* solana_seen_event_cache_max_size fingerprints, and the entry evicted by
\* the insertion of a new fingerprint is the one inserted earliest among
\* those present.
C31_Original ==
    /\ []CacheBounded
    /\ [][\A key \in EvictedNow :
             \A i \in 1..Len(seen_update_events) :
                 CacheEntry(key).at <= seen_update_events[i].at]_vars

\* C31 as amended: the cache never holds more than
\* solana_seen_event_cache_max_size fingerprints, an entry is evicted only by
\* the insertion of a new fingerprint into a full cache, and the entry evicted
\* is the least recently used one: the one whose last insertion or hit is the
\* earliest among those present.
C31_LeastRecentlyUsed ==
    /\ []CacheBounded
    /\ [][\A key \in EvictedNow :
             /\ Len(seen_update_events) = solana_seen_event_cache_max_size
             /\ LruKeys(seen_update_events') \ LruKeys(seen_update_events) # {}
             /\ \A i \in 1..Len(seen_update_events) :
                   CacheEntry(key).used <= seen_update_events[i].used]_vars

\* A full cache that has evicted a fingerprint and whose earliest inserted
\* entry is the most recently used one.
C31_Witness ==
    /\ evicted # {}
    /\ Len(seen_update_events) = solana_seen_event_cache_max_size
    /\ \E i, j \in 1..Len(seen_update_events) :
          /\ i < j
          /\ seen_update_events[j].at < seen_update_events[i].at
          /\ seen_update_events[j].v > 1

(***************************************************************************)
(* The decoders of blockbuster on bytes, and the handlers they feed.       *)
(* Discriminators keep their eight bytes; what follows them is scaled to   *)
(* one byte per account and per argument list.                             *)
(***************************************************************************)
MaxDataLen == 9

\* The bytes the inputs are made of.
DataBytes == {0, 1}

ByteStrings(n) == UNION {[1..k -> DataBytes] : k \in 0..n}

ParseOk(value) == [ok |-> value]

ParseErr(error) == [err |-> error]

\* A panic inside the decoder: the future that called it is aborted.
Panicked == [panic |-> TRUE]

IsParseOk(result) == "ok" \in DOMAIN result

IsParseErr(result) == "err" \in DOMAIN result

\* The parsers of the hpl programs, which handle account updates.
AccountParsers == {"HplCharacterManager", "HplCurrencyManager", "HplHiveControl",
                   "HplNectarMissions", "HplNectarStaking", "HplResourceManager"}

\* A::DISCRIMINATOR of the account type kept in each parser's table.
AccountDiscriminator == [i \in 1..8 |-> 1]

\* A::deserialize(&mut &account_data[8..]): an account of one field of one
\* byte; bytes after it are left unread, a missing byte is an error.
DeserializeAccount(bytes) ==
    IF bytes = <<>> THEN None ELSE Some([bump |-> bytes[1]])

\* handle_account of the hpl parsers: `&account_data[..8]` is taken of every
\* data that is not empty.
handle_account(account_data) ==
    IF account_data = <<>>
    THEN ParseOk([kind |-> "Uninitialized"])
    ELSE IF Len(account_data) < 8
         THEN Panicked
         ELSE LET discriminator == SubSeq(account_data, 1, 8)
                  account == DeserializeAccount(SubSeq(account_data, 9, Len(account_data)))
              IN  IF discriminator = AccountDiscriminator
                  THEN IF IsNone(account)
                       THEN ParseErr("DeserializationError")
                       ELSE ParseOk([kind |-> "Account", discriminator |-> discriminator,
                                     account |-> account.some])
                  ELSE ParseOk([kind |-> "Unknown"])

\* Append::DISCRIMINATOR and CloseEmptyTree::DISCRIMINATOR
AppendDiscriminator == [i \in 1..8 |-> 1]

CloseEmptyTreeDiscriminator == [i \in 1..8 |-> 0]

\* get_instruction_type: split_at(8) panics on fewer than eight bytes, and
\* try_from_slice(..).unwrap() on arguments that are not exactly the leaf.
get_instruction_type(full_bytes) ==
    IF Len(full_bytes) < 8
    THEN Panicked
    ELSE LET disc == SubSeq(full_bytes, 1, 8)
             args_bytes == SubSeq(full_bytes, 9, Len(full_bytes))
         IN  CASE disc = AppendDiscriminator ->
                    IF Len(args_bytes) = 1
                    THEN [kind |-> "Append", leaf |-> args_bytes[1]]
                    ELSE Panicked
               [] disc = CloseEmptyTreeDiscriminator -> [kind |-> "CloseTree"]
               [] OTHER -> [kind |-> "Unknown"]

\* AccountCompressionEvent::try_from_slice: the variant byte, then the
\* version byte of the event, every byte used.
EventFromSlice(bytes) ==
    IF Len(bytes) = 2 /\ bytes[2] = 0
    THEN Some(IF bytes[1] = 0 THEN "ChangeLog" ELSE "ApplicationData")
    ELSE None

\* NoopParser::handle_instruction
NoopParser_handle_instruction(bundle) ==
    IF IsNone(bundle.instruction)
    THEN ParseErr("DeserializationError")
    ELSE LET outer_ix_data == bundle.instruction.some
             event == EventFromSlice(outer_ix_data)
         IN  IF outer_ix_data = <<>>
             THEN ParseErr("InstructionParsingError")
             ELSE ParseOk([tree_update |-> IF event = Some("ChangeLog")
                                           THEN Some(outer_ix_data) ELSE None,
                           application_data |-> IF event = Some("ApplicationData")
                                                THEN Some(outer_ix_data) ELSE None])

\* The loop over inner_ix of AccountCompressionParser::handle_instruction.
RECURSIVE WalkInner(_, _)
WalkInner(b_inst, ixs) ==
    IF ixs = <<>>
    THEN b_inst
    ELSE LET cix == Head(ixs)
             event == IF cix.program = "Noop" /\ cix.data # <<>>
                      THEN EventFromSlice(cix.data) ELSE None
         IN  WalkInner(CASE event = Some("ChangeLog") ->
                              [b_inst EXCEPT !.tree_update = Some(cix.data)]
                         [] event = Some("ApplicationData") ->
                              [b_inst EXCEPT !.leaf_update = Some(cix.data)]
                         [] OTHER -> b_inst,
                       Tail(ixs))

\* AccountCompressionParser::handle_instruction
AccountCompressionParser_handle_instruction(bundle) ==
    IF IsNone(bundle.instruction)
    THEN ParseErr("DeserializationError")
    ELSE LET ix_type == get_instruction_type(bundle.instruction.some)
             b_inst == [instruction |-> ix_type, tree_update |-> None, leaf_update |-> None]
         IN  IF ix_type = Panicked
             THEN Panicked
             ELSE ParseOk(IF IsNone(bundle.inner_ix)
                          THEN b_inst
                          ELSE WalkInner(b_inst, bundle.inner_ix.some))

\* data.schema_value() of the account
schema_value(account) == SObject(("bump" :> SNumber(account.bump)))

save_account_NewerSlot(address, program_id, discriminator, data, slot) ==
    IF address \in DOMAIN dao_accounts
    THEN IF slot > dao_accounts[address].slot_updated
         THEN [dao_accounts EXCEPT ![address].parsed_data = ToJson(schema_value(data)),
                                   ![address].slot_updated = slot]
         ELSE dao_accounts
    ELSE MapInsert(dao_accounts, address,
                   [id |-> address, program_id |-> program_id,
                    discriminator |-> discriminator,
                    parsed_data |-> ToJson(schema_value(data)), slot_updated |-> slot])

\* save_account: insert, or on conflict on the id update parsed_data and
\* slot_updated.
save_account(address, program_id, discriminator, data, slot) ==
    IF address \in DOMAIN dao_accounts
    THEN [dao_accounts EXCEPT ![address].parsed_data = ToJson(schema_value(data)),
                              ![address].slot_updated = slot]
    ELSE MapInsert(dao_accounts, address,
                   [id |-> address, program_id |-> program_id,
                    discriminator |-> discriminator,
                    parsed_data |-> ToJson(schema_value(data)), slot_updated |-> slot])

\* The future ends: what was decoded and what was returned is kept.
Decoded(w, result, returned, writes) ==
    /\ records' = Append(records, [input |-> workers[w].l, result |-> result,
                                   returned |-> returned, writes |-> writes])
    /\ workers' = [workers EXCEPT ![w] = IdleWorker]

\* handle_account_update for an account of an hpl program, up to the call of
\* save_account: variants that are no account end with NotImplemented.
HandleHplAccount(w) ==
    LET ws == workers[w]
        result == handle_account(ws.l.account_info.data)
    IN  /\ ws.pc = "handle_account"
        /\ CASE result = Panicked -> Decoded(w, result, "panic", 0)
             [] IsParseErr(result) -> Decoded(w, result, result.err, 0)
             [] IsParseOk(result) /\ result.ok.kind = "Account" ->
                  /\ workers' = [workers EXCEPT ![w] =
                                    [ws EXCEPT !.pc = "save_account",
                                               !.l = [result |-> result] @@ ws.l]]
                  /\ UNCHANGED records
             [] OTHER -> Decoded(w, result, "NotImplemented", 0)
        /\ UNCHANGED <<merkle_tree, compressed_data, compressed_data_changelog,
                       character_history>>
        /\ UNCHANGED <<ingestVars, assetVars>>

\* save_account's query and what the handler returns after it.
SaveAccount(w) ==
    LET ws == workers[w]
        account_info == ws.l.account_info
        parsed == ws.l.result.ok
    IN  /\ ws.pc = "save_account"
        /\ \E ok \in BOOLEAN :
              IF ok
              THEN /\ dao_accounts' = save_account(account_info.pubkey, account_info.owner,
                                                   parsed.discriminator, parsed.account,
                                                   account_info.slot)
                   /\ Decoded(w, ws.l.result, "Ok", 1)
              ELSE /\ UNCHANGED dao_accounts
                   /\ Decoded(w, ws.l.result, "StorageWriteError", 0)
        /\ UNCHANGED <<merkle_tree, compressed_data, compressed_data_changelog,
                       character_history, asset, token_accounts, opsVars>>
        /\ UNCHANGED ingestVars

\* program.handle_instruction(&ix)? in handle_transaction, for the two
\* parsers of instructions. What handle_noop_instruction does with a decoded
\* event is in the ledger's actions; its errors are logged and not returned.
HandleInstruction(w) ==
    LET ws == workers[w]
        bundle == ws.l.bundle
        result == IF bundle.program = "Noop"
                  THEN NoopParser_handle_instruction(bundle)
                  ELSE AccountCompressionParser_handle_instruction(bundle)
    IN  /\ ws.pc = "handle_instruction"
        /\ CASE result = Panicked -> Decoded(w, result, "panic", 0)
             [] IsParseErr(result) -> Decoded(w, result, result.err, 0)
             [] IsParseOk(result) /\ bundle.program = "AccountCompression" ->
                  /\ workers' = [workers EXCEPT ![w] =
                                    [ws EXCEPT !.pc = "account_compression",
                                               !.l = [result |-> result] @@ ws.l]]
                  /\ UNCHANGED records
             [] OTHER -> Decoded(w, result, "Ok", 0)
        /\ UNCHANGED <<merkle_tree, compressed_data, compressed_data_changelog,
                       character_history>>
        /\ UNCHANGED <<ingestVars, assetVars>>

\* append: the change log is inserted when the instruction carries one, and
\* without one the handler returns ParsingError.
append(parsing_result) ==
    IF ~IsNone(parsing_result.tree_update)
    THEN {[returned |-> "Ok", writes |-> 1], [returned |-> "StorageWriteError", writes |-> 0]}
    ELSE {[returned |-> "ParsingError", writes |-> 0]}

\* handle_account_compression_instruction hands an Append to append and
\* returns what it returns; verify_leaf and the other instructions write
\* nothing. handle_transaction returns the handler's error.
HandleAccountCompressionInstruction(w) ==
    LET ws == workers[w]
        parsing_result == ws.l.result.ok
    IN  /\ ws.pc = "account_compression"
        /\ \E outcome \in IF parsing_result.instruction.kind = "Append"
                          THEN append(parsing_result)
                          ELSE {[returned |-> "Ok", writes |-> 0]} :
              Decoded(w, ws.l.result, outcome.returned, outcome.writes)
        /\ UNCHANGED <<merkle_tree, compressed_data, compressed_data_changelog,
                       character_history>>
        /\ UNCHANGED <<ingestVars, assetVars>>

\* Account updates of every parser with data of every length up to
\* MaxDataLen.
DecodeAccountInfos ==
    {[account_info |-> [pubkey |-> 1, owner |-> owner, slot |-> 1, data |-> data]] :
        owner \in AccountParsers, data \in ByteStrings(MaxDataLen)}

InnerChoices ==
    {[program |-> "Noop", data |-> <<0, 0>>], [program |-> "Noop", data |-> <<1, 0>>],
     [program |-> "Noop", data |-> <<>>], [program |-> "Noop", data |-> <<1, 1>>],
     [program |-> "Other", data |-> <<0, 0>>]}

InnerIxs == {None} \cup {Some(ixs) : ixs \in UNION {[1..n -> InnerChoices] : n \in 0..2}}

\* The bundles handle_transaction builds: `instruction` is always Some.
DecodeBundles ==
    {[bundle |-> [program |-> "Noop", instruction |-> Some(data), inner_ix |-> None]] :
        data \in ByteStrings(MaxDataLen)}
    \cup {[bundle |-> [program |-> "AccountCompression", instruction |-> Some(data),
                       inner_ix |-> inner_ix]] :
            data \in ByteStrings(MaxDataLen), inner_ix \in InnerIxs}

DecodeInit ==
    /\ IngestStart
    /\ merkle_tree = EmptyMap
    /\ compressed_data = EmptyMap
    /\ compressed_data_changelog = <<>>
    /\ character_history = <<>>
    /\ records = <<>>
    /\ asset = EmptyMap
    /\ token_accounts = EmptyMap
    /\ dao_accounts = EmptyMap
    /\ OpsIdle
    /\ \/ \E l \in DecodeAccountInfos :
             workers = [w \in Workers |->
                           IF w = 1 THEN [IdleWorker EXCEPT !.pc = "handle_account", !.l = l]
                           ELSE IdleWorker]
       \/ \E l \in DecodeBundles :
             workers = [w \in Workers |->
                           IF w = 1 THEN [IdleWorker EXCEPT !.pc = "handle_instruction", !.l = l]
                           ELSE IdleWorker]

DecodeNext ==
    \E w \in Workers :
        \/ HandleHplAccount(w)
        \/ SaveAccount(w)
        \/ HandleInstruction(w)
        \/ HandleAccountCompressionInstruction(w)

DecodeSpec == DecodeInit /\ [][DecodeNext]_vars

IsAccountInput(id) == "account_info" \in DOMAIN records[id].input

IsBundleInput(id) == "bundle" \in DOMAIN records[id].input

\* C32: account data of any length from 0 to 7 bytes decodes, in every
\* account decoder, to the Uninitialized variant with success: no error and
\* no abort.
C32_ShortDataUninitialized ==
    \A id \in DOMAIN records :
        (IsAccountInput(id) /\ Len(records[id].input.account_info.data) < 8)
            => records[id].result = ParseOk([kind |-> "Uninitialized"])

\* The part of C32 that holds: empty data decodes to Uninitialized, and the
\* handler of the account ends with NotImplemented.
EmptyDataUninitialized ==
    \A id \in DOMAIN records :
        (IsAccountInput(id) /\ records[id].input.account_info.data = <<>>)
            => /\ records[id].result = ParseOk([kind |-> "Uninitialized"])
               /\ records[id].returned = "NotImplemented"

\* C33: every instruction decoder returns InstructionParsingError on empty
\* outer instruction data; none aborts and none returns success.
C33_EmptyInstructionData ==
    \A id \in DOMAIN records :
        (IsBundleInput(id) /\ records[id].input.bundle.instruction = Some(<<>>))
            => records[id].result = ParseErr("InstructionParsingError")

\* The part of C33 that holds: the decoder of the noop program returns
\* InstructionParsingError on empty data.
NoopEmptyInstructionData ==
    \A id \in DOMAIN records :
        (/\ IsBundleInput(id)
         /\ records[id].input.bundle.program = "Noop"
         /\ records[id].input.bundle.instruction = Some(<<>>))
            => records[id].result = ParseErr("InstructionParsingError")

IsAppendWithoutChangeLog(id) ==
    /\ IsBundleInput(id)
    /\ IsParseOk(records[id].result)
    /\ records[id].input.bundle.program = "AccountCompression"
    /\ records[id].result.ok.instruction # Panicked
    /\ records[id].result.ok.instruction.kind = "Append"
    /\ IsNone(records[id].result.ok.tree_update)

\* C34: an Append decoded without an inner ChangeLog event writes nothing to
\* the store and is dropped without failing the transaction: its handler
\* returns success.
C34_NoChangeLogDropped ==
    \A id \in DOMAIN records :
        IsAppendWithoutChangeLog(id)
            => records[id].writes = 0 /\ records[id].returned = "Ok"

\* The part of C34 that holds: without a ChangeLog event nothing is written.
NoChangeLogWritesNothing ==
    \A id \in DOMAIN records :
        IsAppendWithoutChangeLog(id) => records[id].writes = 0

(***************************************************************************)
(* Account snapshots of one hpl program applied one after another and      *)
(* side by side.                                                           *)
(***************************************************************************)
MaxSnapshots == 3

MaxSnapshotSlot == 2

\* Two accounts, data of both contents, empty data and data of an unknown
\* discriminator.
SnapshotInfos ==
    {[account_info |-> [pubkey |-> pubkey, owner |-> "HplHiveControl", slot |-> slot,
                        data |-> data]] :
        pubkey \in {1, 2}, slot \in 1..MaxSnapshotSlot,
        data \in {AccountDiscriminator \o <<0>>, AccountDiscriminator \o <<1>>, <<>>,
                  CloseEmptyTreeDiscriminator \o <<1>>}}

InHand == Cardinality({w \in Workers : workers[w].pc # "idle"})

\* An account update reaches a future.
SnapshotStart(w) ==
    /\ workers[w].pc = "idle"
    /\ Len(records) + InHand < MaxSnapshots
    /\ \E l \in SnapshotInfos :
          workers' = [workers EXCEPT ![w] =
                         [IdleWorker EXCEPT !.pc = "handle_account", !.l = l]]
    /\ UNCHANGED <<merkle_tree, compressed_data, compressed_data_changelog,
                   character_history, records>>
    /\ UNCHANGED <<ingestVars, assetVars>>

SnapshotInit ==
    /\ IngestStart
    /\ TransformerIdle

SnapshotNext ==
    \E w \in Workers :
        \/ SnapshotStart(w)
        \/ HandleHplAccount(w)
        \/ SaveAccount(w)

SnapshotSpec == SnapshotInit /\ [][SnapshotNext]_vars

\* The snapshots of a pubkey whose upsert was executed, in the order of
\* their execution.
AppliedSnapshots(pubkey) ==
    LET Test(record) == /\ record.returned = "Ok"
                        /\ record.input.account_info.pubkey = pubkey
    IN  SelectSeq(records, Test)

LastApplied(pubkey) == AppliedSnapshots(pubkey)[Len(AppliedSnapshots(pubkey))]

\* C35: after any sequence of upserts for a pubkey there is one accounts row
\* for it, and its parsed_data and slot_updated are those of the snapshot
\* applied last, whatever the slots are.
C35_LastSnapshotWins ==
    \A pubkey \in {1, 2} :
        IF AppliedSnapshots(pubkey) = <<>>
        THEN pubkey \notin DOMAIN dao_accounts
        ELSE /\ pubkey \in DOMAIN dao_accounts
             /\ dao_accounts[pubkey].id = pubkey
             /\ dao_accounts[pubkey].slot_updated = LastApplied(pubkey).input.account_info.slot
             /\ dao_accounts[pubkey].parsed_data =
                   ToJson(schema_value(LastApplied(pubkey).result.ok.account))

\* A snapshot of a lower slot and of other content was applied after one of
\* a higher slot, and the row holds the lower slot.
C35_Witness ==
    \E pubkey \in {1, 2} :
        /\ Len(AppliedSnapshots(pubkey)) >= 2
        /\ LET before == AppliedSnapshots(pubkey)[Len(AppliedSnapshots(pubkey)) - 1]
           IN  /\ LastApplied(pubkey).input.account_info.slot < before.input.account_info.slot
               /\ LastApplied(pubkey).result.ok.account # before.result.ok.account
        /\ dao_accounts[pubkey].slot_updated = LastApplied(pubkey).input.account_info.slot

(***************************************************************************)
(* Claims about the columns a patch writes.                                *)
(***************************************************************************)
\* The update of handle_leaf_patch is executed by future w in this step.
PatchWrites(w) == workers[w].pc = "patch_update" /\ workers'[w].pc = "changelog"

RawMatchesParsed(row) == ToJson(Unborsh(row.raw_data)) = row.parsed_data

\* C37: a PatchChunk changes only parsed_data and slot_updated of the row;
\* raw_data, seq, schema_validated, tree_id and leaf_idx stay as the last
\* Full wrote them, so the row's seq does not become the patch's and
\* raw_data stops being the serialization of parsed_data.
C37_PatchFrame ==
    [][ \A w \in Workers :
          PatchWrites(w) =>
              LET id == workers[w].l.found.id
                  event == workers[w].l.event
              IN  /\ DOMAIN compressed_data' = DOMAIN compressed_data
                  /\ \A other \in DOMAIN compressed_data \ {id} :
                        compressed_data'[other] = compressed_data[other]
                  /\ id \in DOMAIN compressed_data =>
                        LET old == compressed_data[id]
                            new == compressed_data'[id]
                        IN  /\ new = [old EXCEPT !.parsed_data = new.parsed_data,
                                                 !.slot_updated = new.slot_updated]
                            /\ new.slot_updated = event.slot
                            /\ event.seq # old.seq => new.seq # event.seq
                            /\ (RawMatchesParsed(old) /\ new.parsed_data # old.parsed_data)
                                  => ~RawMatchesParsed(new) ]_vars

\* A patch of another sequence number was applied to a leaf: the row holds
\* the patch's slot, not its seq, and raw_data no longer matches parsed_data.
C37_Witness ==
    \E id \in DOMAIN records :
        /\ IsLeafRecord(id, "PatchChunk")
        /\ Finished(id)
        /\ EventId(LeafEventOf(id)) \in DOMAIN compressed_data
        /\ LET row == compressed_data[EventId(LeafEventOf(id))]
           IN  /\ row.seq # LeafEventOf(id).seq
               /\ row.slot_updated = LeafEventOf(id).slot
               /\ ~RawMatchesParsed(row)

(***************************************************************************)
(* Claims about the dedup cache and the flush.                             *)
(***************************************************************************)
\* How often the payload is on its stream.
OnStream(b, cmd) ==
    Cardinality({i \in DOMAIN b[cmd.stream] : b[cmd.stream][i] = cmd.data})

\* The command is in the pipeline or in a flush task that has not run.
AwaitsFlush(cmd) ==
    \/ \E i \in DOMAIN pipe : pipe[i] = cmd
    \/ \E t \in DOMAIN tasks :
          ~tasks[t].done /\ \E i \in DOMAIN tasks[t].cmds : tasks[t].cmds[i] = cmd

\* A flush task runs in this step and its query fails.
FlushFails ==
    \E s \in DOMAIN xadd_status : xadd_status'[s].err > xadd_status[s].err

\* What the steps do to a record with fingerprint key and command cmd.
CachedBeforeFlush(key, cmd) ==
    /\ IssuedAfter(cmd) # Issued(cmd)
          => ~LruContains(seen_update_events, key) /\ LruContains(seen_update_events', key)
    /\ FlushFails => (seen_update_events' = seen_update_events /\ broker' = broker)
    /\ (LruContains(seen_update_events, key) /\ ~AwaitsFlush(cmd))
          => OnStream(broker', cmd) = OnStream(broker, cmd)

\* C38: the fingerprint of a record is put into the dedup cache in the step
\* that adds the record to the pipeline, before its flush runs; a flush that
\* fails leaves the cache and the streams as they are; so while the
\* fingerprint is cached every delivery of the update is suppressed, and a
\* record whose flush has run does not reach its stream any more.
C38_FailedFlushSuppresses ==
    [][ /\ \A account \in AccountUpdates :
              CachedBeforeFlush(SlotPubkey(account), AccountCmd(account))
        /\ \A sig \in Signatures :
              CachedBeforeFlush(HexEncode(sig), TxCmd(sig)) ]_vars

\* The flush of a batch of two account updates has failed, both were
\* delivered a second time, and neither is on the stream.
C38_Witness ==
    /\ xadd_status["ACCOUNTS"].err = pipeline_max_size
    /\ broker["ACCOUNTS"] = <<>>
    /\ pipe = <<>>
    /\ \A t \in DOMAIN tasks : tasks[t].done
    /\ \E a, b \in AccountUpdates :
          /\ a # b
          /\ \A account \in {a, b} :
                /\ LruContains(seen_update_events, SlotPubkey(account))
                /\ arrivals[SlotPubkey(account)] = 2
                /\ Issued(AccountCmd(account)) = 1

(***************************************************************************)
(* Claims about the number of flush tasks.                                 *)
(***************************************************************************)
\* A branch of select! that ends with `continue`: an update was taken and
\* nothing was added to the pipeline.
Continues == received' # received /\ xadd_log' = xadd_log

\* C40: whenever the loop is at select!, fewer than max_xadd_in_process
\* flush tasks are in flight: a branch that spawns a task ends in the join
\* loop, which is left only below the limit, and the branches that skip the
\* join loop spawn no task.
C40_TasksBelowLimit ==
    /\ [](AtSelect => Len(tasks) < max_xadd_in_process)
    /\ [][ /\ Continues => (tasks' = tasks /\ ~at_join')
           /\ Len(tasks') > Len(tasks) => (at_join' <=> TasksFull(tasks')) ]_vars

\* The loop waits in the join loop with max_xadd_in_process tasks in flight,
\* none of which has run.
C40_Witness ==
    /\ phase = "loop"
    /\ at_join
    /\ Len(tasks) = max_xadd_in_process
    /\ \A t \in DOMAIN tasks : ~tasks[t].done

(***************************************************************************)
(* The backfiller (ops/src/bubblegum).  run spawns one gap worker per      *)
(* tree; a gap worker reads the gaps of its tree from cl_audits_v2 and     *)
(* sends them on the gap channel; the gap manager spawns a crawl worker    *)
(* per gap; a crawl worker pages through the signatures of its gap and     *)
(* sends the successful ones on the signature channel; the transaction     *)
(* manager spawns a transaction worker per signature.                      *)
(*                                                                         *)
(* A transaction of a tree's history is [err |-> BOOLEAN]; position 1 of   *)
(* chain[tree] is the newest.  A signature is [tree, n], n the position.   *)
(***************************************************************************)

\* Page size of the RPC, 1000 in the source, scaled.
GET_SIGNATURES_FOR_ADDRESS_LIMIT == 2

\* Args of run.
tree_crawler_count == 1
gap_worker_count == 1
transaction_worker_count == 1
signature_channel_size == 1
gap_channel_size == 1

\* Most transactions in the histories of all trees together.
MaxSignatures == 3

\* Most transactions in the history that one crawl is checked against.
MaxCrawlHistory == 5

TreePubkeys == {"tree1", "tree2"}

Sig(tree, n) == [tree |-> tree, n |-> n]

Histories(n) == UNION {[1..k -> [err : BOOLEAN]] : k \in 0..n}

Successful(history) == {p \in 1..Len(history) : ~history[p].err}

\* The sequence number a successful transaction gave its tree: the oldest
\* successful one gave 1.
SeqOf(history, p) == Cardinality({q \in Successful(history) : q >= p})

PosOfSeq(history, seq) == CHOOSE p \in Successful(history) : SeqOf(history, p) = seq

\* TreeResponse: the tree account as the ledger has it.
TreeResponse(tree) == [pubkey |-> tree, seq |-> Cardinality(Successful(chain[tree]))]

TreeGapFill(tree, before, until) == [tree |-> tree, before |-> before, until |-> until]

\* The RPC: the signatures of the tree older than `before` and newer than
\* `until`, newest first, at most a page of them.
get_signatures_for_address(tree, before, until) ==
    LET history == chain[tree]
        first == IF before = None THEN 1 ELSE before.some.n + 1
        last == IF until = None THEN Len(history) ELSE until.some.n - 1
        count == IF last < first THEN 0
                 ELSE IF last - first + 1 > GET_SIGNATURES_FOR_ADDRESS_LIMIT
                      THEN GET_SIGNATURES_FOR_ADDRESS_LIMIT
                      ELSE last - first + 1
    IN  [i \in 1..count |-> [signature |-> Sig(tree, first + i - 1),
                             err |-> history[first + i - 1].err]]

RECURSIVE Ascending(_)
Ascending(S) ==
    IF S = {} THEN <<>>
    ELSE LET least == CHOOSE x \in S : \A y \in S : x <= y
         IN  <<least>> \o Ascending(S \ {least})

\* TREE_GAP_SQL: a gap for every two neighbouring rows of the tree whose
\* sequence numbers differ by more than one, the older row's transaction as
\* lower bound and the newer row's as upper bound, by gap_start_seq.
TreeGapModel_find(tree) ==
    LET history == chain[tree]
        seqs == Ascending({SeqOf(history, p) : p \in cl_audits_v2[tree]})
        pairs == SelectSeq([i \in 1..(IF seqs = <<>> THEN 0 ELSE Len(seqs) - 1) |->
                                [seq |-> seqs[i], next_seq |-> seqs[i + 1]]],
                           LAMBDA g : g.next_seq - g.seq > 1)
    IN  [i \in 1..Len(pairs) |->
            TreeGapFill(tree, Some(Sig(tree, PosOfSeq(history, pairs[i].next_seq))),
                              Some(Sig(tree, PosOfSeq(history, pairs[i].seq))))]

\* The gaps a gap worker sends: those between the rows, the one above the
\* highest row (or the whole tree when there is no row and the tree has
\* sequence numbers), the one below the lowest row.
GapsOfTree(tree) ==
    LET history == chain[tree.pubkey]
        known == cl_audits_v2[tree.pubkey]
        upper == IF known = {} THEN None
                 ELSE Some(CHOOSE p \in known : \A q \in known : p <= q)
        lower == IF known = {} THEN None
                 ELSE Some(CHOOSE p \in known : \A q \in known : p >= q)
        above == IF upper # None
                 THEN <<TreeGapFill(tree.pubkey, None, Some(Sig(tree.pubkey, upper.some)))>>
                 ELSE IF tree.seq > 0
                      THEN <<TreeGapFill(tree.pubkey, None, None)>>
                      ELSE <<>>
        below == IF lower # None /\ SeqOf(history, lower.some) > 1
                 THEN <<TreeGapFill(tree.pubkey, Some(Sig(tree.pubkey, lower.some)), None)>>
                 ELSE <<>>
    IN  TreeGapModel_find(tree.pubkey) \o above \o below

GapWorker(tree) ==
    [kind |-> "gap_worker", pc |-> "find", tree |-> tree, gaps |-> <<>>, sent |-> <<>>]

\* polls is the parity of the number of pages the worker asked for.
CrawlWorker(gap) ==
    [kind |-> "crawl_worker", pc |-> "fetch", gap |-> gap, before |-> gap.before,
     sig_count |-> 0, successful_transactions |-> <<>>, sent |-> <<>>, polls |-> 0,
     result |-> None]

TransactionWorker(signature) ==
    [kind |-> "transaction_worker", pc |-> "queue", signature |-> signature]

Manager == [pc |-> "recv", handlers |-> {}, holding |-> None]

IsFinished(i) == spawned[i].pc = "done"

TasksOf(kind) == {i \in DOMAIN spawned : spawned[i].kind = kind}

\* All senders of a channel are dropped: run's own, and the clone each
\* running task holds.
GapChannelClosed ==
    /\ backfill.pc \in {"gap_worker_manager", "transaction_worker_manager", "returned"}
    /\ \A i \in TasksOf("gap_worker") : IsFinished(i)

SigChannelClosed ==
    /\ backfill.pc \in {"transaction_worker_manager", "returned"}
    /\ managers.gap.pc = "done"
    /\ \A i \in TasksOf("crawl_worker") : IsFinished(i)

ManagerNames == {"gap", "tx"}

ChannelOf(m) == IF m = "gap" THEN gap_channel ELSE sig_channel

ChannelClosed(m) == IF m = "gap" THEN GapChannelClosed ELSE SigChannelClosed

WorkerCount(m) == IF m = "gap" THEN gap_worker_count ELSE transaction_worker_count

WorkerFor(m, item) == IF m = "gap" THEN CrawlWorker(item) ELSE TransactionWorker(item)

\* One turn of `for tree in trees`: when tree_crawler_count handles are
\* held, wait for one of them to finish; then spawn the tree's gap worker.
RunCrawlTree ==
    /\ backfill.pc = "trees"
    /\ backfill.trees # <<>>
    /\ \E yielded \in SUBSET backfill.crawl_handles :
          /\ IF Cardinality(backfill.crawl_handles) >= tree_crawler_count
                /\ backfill.crawl_handles # {}
             THEN Cardinality(yielded) = 1 /\ \A i \in yielded : IsFinished(i)
             ELSE yielded = {}
          /\ spawned' = Append(spawned, GapWorker(Head(backfill.trees)))
          /\ backfill' = [backfill EXCEPT
                             !.trees = Tail(@),
                             !.crawl_handles = (@ \ yielded) \cup {Len(spawned) + 1}]
    /\ UNCHANGED <<chain, cl_audits_v2, gap_channel, sig_channel, managers>>
    /\ UNCHANGED <<ingestVars, transformerVars, asset, token_accounts, dao_accounts>>

\* try_join_all(crawl_handles).await?; drop(gap_sender).  The result of a
\* gap worker is inside the handle's Ok and is not looked at.
RunJoinCrawlers ==
    /\ backfill.pc = "trees"
    /\ backfill.trees = <<>>
    /\ \A i \in backfill.crawl_handles : IsFinished(i)
    /\ backfill' = [backfill EXCEPT !.pc = "gap_worker_manager"]
    /\ UNCHANGED <<chain, cl_audits_v2, gap_channel, sig_channel, managers, spawned>>
    /\ UNCHANGED <<ingestVars, transformerVars, asset, token_accounts, dao_accounts>>

\* gap_worker_manager.await?; drop(sig_sender).
RunAwaitGapManager ==
    /\ backfill.pc = "gap_worker_manager"
    /\ managers.gap.pc = "done"
    /\ backfill' = [backfill EXCEPT !.pc = "transaction_worker_manager"]
    /\ UNCHANGED <<chain, cl_audits_v2, gap_channel, sig_channel, managers, spawned>>
    /\ UNCHANGED <<ingestVars, transformerVars, asset, token_accounts, dao_accounts>>

\* transaction_worker_manager.await?; Ok(()).
RunAwaitTransactionManager ==
    /\ backfill.pc = "transaction_worker_manager"
    /\ managers.tx.pc = "done"
    /\ backfill' = [backfill EXCEPT !.pc = "returned"]
    /\ UNCHANGED <<chain, cl_audits_v2, gap_channel, sig_channel, managers, spawned>>
    /\ UNCHANGED <<ingestVars, transformerVars, asset, token_accounts, dao_accounts>>

\* The head of a manager's loop, receiver.recv().await: an item is taken
\* and, when fewer than the worker count of handlers are held, its worker
\* is spawned; None, when the channel is closed and empty, ends the loop.
ManagerRecv(m) ==
    LET mgr == managers[m]
        channel_m == ChannelOf(m)
    IN  /\ mgr.pc = "recv"
        /\ IF channel_m # <<>>
           THEN /\ IF m = "gap"
                   THEN gap_channel' = Tail(gap_channel) /\ UNCHANGED sig_channel
                   ELSE sig_channel' = Tail(sig_channel) /\ UNCHANGED gap_channel
                /\ IF Cardinality(mgr.handlers) >= WorkerCount(m) /\ mgr.handlers # {}
                   THEN /\ managers' = [managers EXCEPT ![m].pc = "next",
                                                        ![m].holding = Some(Head(channel_m))]
                        /\ UNCHANGED spawned
                   ELSE /\ spawned' = Append(spawned, WorkerFor(m, Head(channel_m)))
                        /\ managers' = [managers EXCEPT
                                           ![m].handlers = @ \cup {Len(spawned) + 1}]
           ELSE /\ ChannelClosed(m)
                /\ managers' = [managers EXCEPT ![m].pc = "join_all"]
                /\ UNCHANGED <<gap_channel, sig_channel, spawned>>
        /\ UNCHANGED <<chain, cl_audits_v2, backfill>>
        /\ UNCHANGED <<ingestVars, transformerVars, asset, token_accounts, dao_accounts>>

\* handlers.next().await with the worker count of handlers held: one that
\* has finished is yielded, and the worker of the item in hand is spawned.
ManagerNextHandler(m) ==
    LET mgr == managers[m]
    IN  /\ mgr.pc = "next"
        /\ \E i \in mgr.handlers :
              /\ IsFinished(i)
              /\ spawned' = Append(spawned, WorkerFor(m, mgr.holding.some))
              /\ managers' = [managers EXCEPT
                                 ![m].pc = "recv",
                                 ![m].holding = None,
                                 ![m].handlers = (@ \ {i}) \cup {Len(spawned) + 1}]
        /\ UNCHANGED <<chain, cl_audits_v2, backfill, gap_channel, sig_channel>>
        /\ UNCHANGED <<ingestVars, transformerVars, asset, token_accounts, dao_accounts>>

\* futures::future::join_all(handlers).await, the end of a manager.
ManagerJoinAll(m) ==
    LET mgr == managers[m]
    IN  /\ mgr.pc = "join_all"
        /\ \A i \in mgr.handlers : IsFinished(i)
        /\ managers' = [managers EXCEPT ![m].pc = "done"]
        /\ UNCHANGED <<chain, cl_audits_v2, backfill, gap_channel, sig_channel, spawned>>
        /\ UNCHANGED <<ingestVars, transformerVars, asset, token_accounts, dao_accounts>>

\* spawn_gap_worker up to its loop of sends: the three queries, each of
\* which may fail and end the worker.
GapWorkerFind(i) ==
    /\ i \in TasksOf("gap_worker")
    /\ spawned[i].pc = "find"
    /\ \E ok \in BOOLEAN :
          LET gaps == GapsOfTree(spawned[i].tree)
          IN  spawned' = [spawned EXCEPT
                             ![i].pc = IF ok /\ gaps # <<>> THEN "send" ELSE "done",
                             ![i].gaps = IF ok THEN gaps ELSE <<>>]
    /\ UNCHANGED <<chain, cl_audits_v2, backfill, gap_channel, sig_channel, managers>>
    /\ UNCHANGED <<ingestVars, transformerVars, asset, token_accounts, dao_accounts>>

\* sender.send(gap).await of a gap worker: waits for room in the channel;
\* a send to a channel whose receiver is gone fails and is only logged.
GapWorkerSend(i) ==
    /\ i \in TasksOf("gap_worker")
    /\ spawned[i].pc = "send"
    /\ LET gap == Head(spawned[i].gaps)
           receiver_gone == managers.gap.pc \in {"join_all", "done"}
       IN  /\ receiver_gone \/ Len(gap_channel) < gap_channel_size
           /\ gap_channel' = IF receiver_gone THEN gap_channel ELSE Append(gap_channel, gap)
           /\ spawned' = [spawned EXCEPT
                             ![i].gaps = Tail(@),
                             ![i].sent = IF receiver_gone THEN @ ELSE Append(@, gap),
                             ![i].pc = IF Tail(spawned[i].gaps) = <<>> THEN "done" ELSE "send"]
    /\ UNCHANGED <<chain, cl_audits_v2, backfill, sig_channel, managers>>
    /\ UNCHANGED <<ingestVars, transformerVars, asset, token_accounts, dao_accounts>>

\* After the sends of a page: leave the loop when the page was short.
AfterPage(task) ==
    IF task.successful_transactions # <<>> THEN "send"
    ELSE IF task.sig_count < GET_SIGNATURES_FOR_ADDRESS_LIMIT THEN "done"
    ELSE "fetch"

\* TreeGapFill::crawl, the head of a turn of its loop: the page is asked
\* for with the cursor `before`; an error of the RPC ends the crawl.
CrawlPage(i) ==
    /\ i \in TasksOf("crawl_worker")
    /\ spawned[i].pc = "fetch"
    /\ \E ok \in BOOLEAN :
          LET task == spawned[i]
              sigs == get_signatures_for_address(task.gap.tree, task.before, task.gap.until)
              fetched == [task EXCEPT
                             !.sig_count = Len(sigs),
                             !.successful_transactions =
                                 SelectSeq(sigs, LAMBDA transaction : ~transaction.err),
                             !.polls = (@ + 1) % 2]
          IN  spawned' = [spawned EXCEPT
                             ![i] = IF ok
                                    THEN [fetched EXCEPT !.pc = AfterPage(fetched),
                                                         !.result = IF AfterPage(fetched) = "done"
                                                                    THEN Some("Ok") ELSE None]
                                    ELSE [task EXCEPT !.pc = "done", !.result = Some("Err")]]
    /\ UNCHANGED <<chain, cl_audits_v2, backfill, gap_channel, sig_channel, managers>>
    /\ UNCHANGED <<ingestVars, transformerVars, asset, token_accounts, dao_accounts>>

\* TreeGapFill::crawl, one turn of `for sig in successful_transactions`:
\* sender.send(sig).await waits for room; before = Some(sig).  A send to a
\* channel whose receiver is gone ends the crawl with the error.
CrawlSend(i) ==
    /\ i \in TasksOf("crawl_worker")
    /\ spawned[i].pc = "send"
    /\ LET task == spawned[i]
           sig == Head(task.successful_transactions).signature
           receiver_gone == managers.tx.pc \in {"join_all", "done"}
           sending == [task EXCEPT !.successful_transactions = Tail(@),
                                   !.sent = Append(@, sig),
                                   !.before = Some(sig)]
       IN  /\ receiver_gone \/ Len(sig_channel) < signature_channel_size
           /\ sig_channel' = IF receiver_gone THEN sig_channel ELSE Append(sig_channel, sig)
           /\ spawned' = [spawned EXCEPT
                             ![i] = IF receiver_gone
                                    THEN [task EXCEPT !.pc = "done", !.result = Some("Err")]
                                    ELSE [sending EXCEPT
                                             !.pc = AfterPage(sending),
                                             !.result = IF AfterPage(sending) = "done"
                                                        THEN Some("Ok") ELSE None]]
    /\ UNCHANGED <<chain, cl_audits_v2, backfill, gap_channel, managers>>
    /\ UNCHANGED <<ingestVars, transformerVars, asset, token_accounts, dao_accounts>>

\* spawn_transaction_worker: queue_transaction returns, with Ok or Err, and
\* the worker ends.
QueueTransaction(i) ==
    /\ i \in TasksOf("transaction_worker")
    /\ spawned[i].pc = "queue"
    /\ spawned' = [spawned EXCEPT ![i].pc = "done"]
    /\ UNCHANGED <<chain, cl_audits_v2, backfill, gap_channel, sig_channel, managers>>
    /\ UNCHANGED <<ingestVars, transformerVars, asset, token_accounts, dao_accounts>>

NotBackfilling ==
    /\ IngestStart
    /\ merkle_tree = EmptyMap
    /\ compressed_data = EmptyMap
    /\ compressed_data_changelog = <<>>
    /\ character_history = <<>>
    /\ workers = [w \in Workers |-> IdleWorker]
    /\ records = <<>>
    /\ asset = EmptyMap
    /\ token_accounts = EmptyMap
    /\ dao_accounts = EmptyMap

\* run after its setup: the trees are fetched, the channels are made and
\* the two managers are spawned.
BackfillInit ==
    /\ NotBackfilling
    /\ chain \in [TreePubkeys -> Histories(MaxSignatures)]
    /\ Len(chain["tree1"]) + Len(chain["tree2"]) <= MaxSignatures
    /\ cl_audits_v2 \in [TreePubkeys -> SUBSET (1..MaxSignatures)]
    /\ \A tree \in TreePubkeys : cl_audits_v2[tree] \subseteq Successful(chain[tree])
    /\ \E trees \in {<<"tree1">>, <<"tree1", "tree2">>} :
          backfill = [pc |-> "trees",
                      trees |-> [i \in 1..Len(trees) |-> TreeResponse(trees[i])],
                      crawl_handles |-> {}]
    /\ gap_channel = <<>>
    /\ sig_channel = <<>>
    /\ managers = [m \in ManagerNames |-> Manager]
    /\ spawned = <<>>

BackfillStep ==
    \/ RunCrawlTree
    \/ RunJoinCrawlers
    \/ RunAwaitGapManager
    \/ RunAwaitTransactionManager
    \/ \E m \in ManagerNames : ManagerRecv(m)
    \/ \E m \in ManagerNames : ManagerNextHandler(m)
    \/ \E m \in ManagerNames : ManagerJoinAll(m)
    \/ \E i \in DOMAIN spawned : GapWorkerFind(i)
    \/ \E i \in DOMAIN spawned : GapWorkerSend(i)
    \/ \E i \in DOMAIN spawned : CrawlPage(i)
    \/ \E i \in DOMAIN spawned : CrawlSend(i)
    \/ \E i \in DOMAIN spawned : QueueTransaction(i)

BackfillSpec == BackfillInit /\ [][BackfillStep]_vars

\* Every task of the runtime that can take a step does take one.
BackfillFair ==
    /\ WF_vars(RunCrawlTree)
    /\ WF_vars(RunJoinCrawlers)
    /\ WF_vars(RunAwaitGapManager)
    /\ WF_vars(RunAwaitTransactionManager)
    /\ \A m \in ManagerNames :
          WF_vars(ManagerRecv(m)) /\ WF_vars(ManagerNextHandler(m)) /\ WF_vars(ManagerJoinAll(m))
    /\ WF_vars(\E i \in DOMAIN spawned : GapWorkerFind(i))
    /\ WF_vars(\E i \in DOMAIN spawned : GapWorkerSend(i))
    /\ WF_vars(\E i \in DOMAIN spawned : CrawlPage(i))
    /\ WF_vars(\E i \in DOMAIN spawned : CrawlSend(i))
    /\ WF_vars(\E i \in DOMAIN spawned : QueueTransaction(i))

BackfillLive == BackfillSpec /\ BackfillFair

\* run over one tree with a longer history, for the crawl of each of its gaps.
CrawlInit ==
    /\ NotBackfilling
    /\ chain \in [TreePubkeys -> Histories(MaxCrawlHistory)]
    /\ chain["tree2"] = <<>>
    /\ cl_audits_v2 \in [TreePubkeys -> SUBSET (1..MaxCrawlHistory)]
    /\ \A tree \in TreePubkeys : cl_audits_v2[tree] \subseteq Successful(chain[tree])
    /\ backfill = [pc |-> "trees", trees |-> <<TreeResponse("tree1")>>, crawl_handles |-> {}]
    /\ gap_channel = <<>>
    /\ sig_channel = <<>>
    /\ managers = [m \in ManagerNames |-> Manager]
    /\ spawned = <<>>

CrawlSpec == CrawlInit /\ [][BackfillStep]_vars

CrawlLive == CrawlSpec /\ BackfillFair

Crawling == \E i \in TasksOf("crawl_worker") : ~IsFinished(i)

\* C36: TreeGapFill::crawl terminates for every finite signature history,
\* also when a full page holds no successful transaction: a crawl worker
\* that is crawling comes to its end.
C36_CrawlTerminates == Crawling ~> ~Crawling

\* The holding part: a page moves the cursor `before` to its last
\* successful signature, and a crawl that has ended with Ok has sent every
\* successful signature of its gap, in the history's order.
CrawlSentAll ==
    \A i \in TasksOf("crawl_worker") :
        spawned[i].result = Some("Ok") =>
            LET gap == spawned[i].gap
                first == IF gap.before = None THEN 1 ELSE gap.before.some.n + 1
                last == IF gap.until = None THEN Len(chain[gap.tree]) ELSE gap.until.some.n - 1
            IN  {spawned[i].sent[k].n : k \in 1..Len(spawned[i].sent)} =
                    {p \in Successful(chain[gap.tree]) : first <= p /\ p <= last}

Returned == backfill.pc = "returned"

GapsSent == UNION {{<<i, k>> : k \in 1..Len(spawned[i].sent)} : i \in TasksOf("gap_worker")}

SignaturesSent == UNION {{<<i, k>> : k \in 1..Len(spawned[i].sent)} : i \in TasksOf("crawl_worker")}

\* Every gap sent has its crawl worker and every signature sent has its
\* transaction worker, all finished, and nothing is left in a channel.
AllHandled ==
    /\ gap_channel = <<>>
    /\ sig_channel = <<>>
    /\ \A i \in DOMAIN spawned : IsFinished(i)
    /\ Cardinality(TasksOf("crawl_worker")) = Cardinality(GapsSent)
    /\ {spawned[i].gap : i \in TasksOf("crawl_worker")} =
           {spawned[p[1]].sent[p[2]] : p \in GapsSent}
    /\ Cardinality(TasksOf("transaction_worker")) = Cardinality(SignaturesSent)
    /\ {spawned[i].signature : i \in TasksOf("transaction_worker")} =
           {spawned[p[1]].sent[p[2]] : p \in SignaturesSent}

\* run returns only after every gap sent has been crawled and every
\* signature sent has been handled.
ReturnsAfterAllHandled == Returned => AllHandled

\* The gap channel is closed after all tree workers have finished, the
\* signature channel after the gap manager has finished.
ClosedInOrder ==
    /\ backfill.pc # "trees" =>
          backfill.trees = <<>> /\ \A i \in TasksOf("gap_worker") : IsFinished(i)
    /\ backfill.pc \in {"transaction_worker_manager", "returned"} =>
          managers.gap.pc = "done" /\ \A i \in TasksOf("crawl_worker") : IsFinished(i)
    /\ managers.gap.pc \in {"join_all", "done"} => GapChannelClosed /\ gap_channel = <<>>
    /\ managers.tx.pc \in {"join_all", "done"} => SigChannelClosed /\ sig_channel = <<>>

\* No state before the return of run is without a task that can step.
NoBackfillDeadlock == Returned \/ ENABLED BackfillStep

\* C39: run terminates, without deadlock and only after every gap sent has
\* been crawled and every signature sent has been handled, the channels
\* being closed in order.
C39_RunTerminates ==
    /\ <>Returned
    /\ [](NoBackfillDeadlock /\ ReturnsAfterAllHandled /\ ClosedInOrder)

\* run does terminate in every behaviour in which the crawls do.
TerminatesIfCrawlsDo == <>[]Crawling \/ <>Returned

RunReturnedAfterWork ==
    /\ Returned
    /\ Cardinality(TasksOf("crawl_worker")) >= 2
    /\ TasksOf("transaction_worker") # {}

====
